---- MODULE Spec2Model ----
(***************************************************************************)
(* Brawlhalla power editor: the combo graph resolver, the combo tree       *)
(* grouper of the power list, and the frame cursor of the visualizer.      *)
(*                                                                         *)
(* A JavaScript string is a sequence of one-character strings, so that     *)
(* toLowerCase, toUpperCase and split are computed, not assumed.  A Power  *)
(* is a record of its string fields; a Power object is identified by its   *)
(* position in the list (0 stands for undefined).                          *)
(***************************************************************************)
EXTENDS Integers, Sequences, FiniteSets, TLC

\* ------------------------------------------------------------------ strings

\* null or undefined in a string field (distinct from the empty string)
Null == <<"<null>">>

\* JavaScript truthiness of a string field: neither null/undefined nor ""
Truthy(s) == s # Null /\ s # <<>>

\* (upper, lower) pairs of the letters used by the model
CasePairs ==
    { <<"A", "a">>, <<"B", "b">>, <<"C", "c">>, <<"D", "d">>, <<"G", "g">>,
      <<"N", "n">>, <<"O", "o">>, <<"P", "p">>, <<"U", "u">>, <<"W", "w">>,
      <<"X", "x">>, <<"Z", "z">> }

\* the lower-case letter of each upper-case letter
LowerOf ==
    [c \in { p[1] : p \in CasePairs } |-> (CHOOSE p \in CasePairs : p[1] = c)[2]]

LowerChar(c) == IF c \in DOMAIN LowerOf THEN LowerOf[c] ELSE c

\* the upper-case letter of each lower-case letter
UpperOf ==
    [c \in { p[2] : p \in CasePairs } |-> (CHOOSE p \in CasePairs : p[2] = c)[1]]

UpperChar(c) == IF c \in DOMAIN UpperOf THEN UpperOf[c] ELSE c

toLowerCase(s) == [i \in 1..Len(s) |-> LowerChar(s[i])]

\* text.includes(part)
includes(text, part) ==
    \E k \in 0..(Len(text) - Len(part)) : SubSeq(text, k + 1, k + Len(part)) = part

toUpperCase(s) == [i \in 1..Len(s) |-> UpperChar(s[i])]

Min(S) == CHOOSE x \in S : \A y \in S : x <= y

\* F(e) with e computed once, however often F reads its argument
With(e, F(_)) == CHOOSE result \in { F(value) : value \in {e} } : TRUE

Max(S) == CHOOSE x \in S : \A y \in S : y <= x

\* String.prototype.split with a one-character separator: the pieces between
\* consecutive separators, the start and the end of the string
split(s, sep) ==
    LET pieces(seps) ==
            LET cut(k) ==
                    IF k = 0 THEN 0
                    ELSE IF k > Cardinality(seps) THEN Len(s) + 1
                    ELSE CHOOSE i \in seps : Cardinality({ j \in seps : j <= i }) = k
            IN  [k \in 1..(Cardinality(seps) + 1) |->
                    SubSeq(s, cut(k - 1) + 1, cut(k) - 1)]
    IN  With({ i \in 1..Len(s) : s[i] = sep }, pieces)

\* String.prototype.trim over the model's only whitespace character
trim(s) ==
    LET inked == { i \in 1..Len(s) : s[i] # " " }
    IN  IF inked = {} THEN <<>>
        ELSE SubSeq(s, CHOOSE i \in inked : \A j \in inked : i <= j,
                       CHOOSE i \in inked : \A j \in inked : j <= i)

\* ---------------------------------------------------------------- Direction

\* keys of the Direction enum (enums/Direction)
DirectionKeys == { <<"U", "P">>, <<"D", "O", "W", "N">> }

\* Direction[key]: the enum value of a key, Null (falsy) for any other key
Direction(key) == IF key \in DirectionKeys THEN key ELSE Null

\* ------------------------------------------------------------------- Powers

\* the six scalar combo slots of a ComboTree, in the order the grouper
\* processes them, and the Power field each one reads
ScalarSlots ==
    <<"normal", "if_hit", "if_release", "if_wall", "if_button", "if_interrupt">>

SlotField ==
    [normal       |-> "combo_name",
     if_hit       |-> "combo_override_if_hit",
     if_release   |-> "combo_override_if_release",
     if_wall      |-> "combo_override_if_wall",
     if_button    |-> "combo_override_if_button",
     if_interrupt |-> "combo_override_if_interrupt"]

\* ------------------------------------------------------ Combo Graph Resolver

\* power[key] of a JavaScript object: undefined for a key the object lacks
Field(power, key) == IF key \in DOMAIN power THEN power[key] ELSE Null

\* findPowerByName, taking the last match (a plausible slip)
findPowerByName_last(ps, name) ==
    IF ~Truthy(name) THEN 0
    ELSE LET chosen(matching) == IF matching = {} THEN 0 ELSE Max(matching)
         IN  With({ i \in 1..Len(ps) :
                      /\ ps[i].power_name # Null
                      /\ toLowerCase(ps[i].power_name) = toLowerCase(name) },
                  chosen)

\* powers.filter(p => p.power_name?.toLowerCase() === name.toLowerCase())[0]
findPowerByName(ps, name) ==
    IF ~Truthy(name) THEN 0
    ELSE LET chosen(matching) == IF matching = {} THEN 0 ELSE Min(matching)
         IN  With({ i \in 1..Len(ps) :
                      /\ ps[i].power_name # Null
                      /\ toLowerCase(ps[i].power_name) = toLowerCase(name) },
                  chosen)

\* the .map callback of findActiveInputPowers: one entry to an ActiveInput,
\* or to a record with combo 0 for the null the filter removes
activeInputOf(ps, input) ==
    LET parsed(data) ==
            IF Len(data) # 2 THEN [direction |-> Null, combo |-> 0]
            ELSE LET direction == Direction(toUpperCase(data[1]))
                     combo == findPowerByName(ps, data[2])
                 IN  IF ~Truthy(direction) THEN [direction |-> Null, combo |-> 0]
                     ELSE IF combo = 0 THEN [direction |-> Null, combo |-> 0]
                     ELSE [direction |-> direction, combo |-> combo]
    IN  With(split(input, ":"), parsed)

\* the test of Array.prototype.filter(x => x !== null) over mapped entries
nonNull(item) == item.combo # 0

\* Array.prototype.filter(x => x !== null) over mapped entries
filterNonNull(items) == SelectSeq(items, nonNull)

\* findActiveInputPowers, returning an empty list where the code returns
\* undefined (a plausible slip)
findActiveInputPowers_empty(ps, inputString) ==
    IF ~Truthy(inputString) THEN [defined |-> FALSE, items |-> <<>>]
    ELSE LET mapped(inputs) ==
                 [i \in 1..Len(inputs) |-> activeInputOf(ps, inputs[i])]
         IN  [defined |-> TRUE,
              items |-> filterNonNull(With(split(inputString, ","), mapped))]

\* findActiveInputPowers, giving up at the first invalid entry (a plausible slip)
findActiveInputPowers_stop(ps, inputString) ==
    IF ~Truthy(inputString) THEN [defined |-> FALSE, items |-> <<>>]
    ELSE LET mapped(inputs) ==
                 [i \in 1..Len(inputs) |-> activeInputOf(ps, inputs[i])]
             upToBad(all) ==
                 LET bad == { i \in 1..Len(all) : all[i].combo = 0 }
                 IN  IF bad = {} THEN all ELSE SubSeq(all, 1, Min(bad) - 1)
             result(kept) ==
                 IF Len(kept) > 0 THEN [defined |-> TRUE, items |-> kept]
                 ELSE [defined |-> FALSE, items |-> <<>>]
         IN  With(With(With(split(inputString, ","), mapped), upToBad), result)

\* findActiveInputPowers: ActiveInput[] | undefined
findActiveInputPowers(ps, inputString) ==
    IF ~Truthy(inputString) THEN [defined |-> FALSE, items |-> <<>>]
    ELSE LET mapped(inputs) ==
                 [i \in 1..Len(inputs) |-> activeInputOf(ps, inputs[i])]
             result(activeInputs) ==
                 IF Len(activeInputs) > 0
                 THEN [defined |-> TRUE, items |-> activeInputs]
                 ELSE [defined |-> FALSE, items |-> <<>>]
         IN  With(filterNonNull(With(split(inputString, ","), mapped)), result)

\* the null ComboTree
NullTree == [null |-> TRUE]

\* Object.values(tree).every(v => v === undefined)
allEmpty(tree) ==
    /\ \A k \in 1..Len(ScalarSlots) : tree[ScalarSlots[k]] = 0
    /\ ~tree.if_dir.defined

\* getComboTreeForPower (resolveForward)
getComboTreeForPower(ps, power) ==
    LET result(tree) == IF allEmpty(tree) THEN NullTree ELSE tree
    IN  With([null         |-> FALSE,
              normal       |-> findPowerByName(ps, Field(power, "combo_name")),
              if_hit       |-> findPowerByName(ps, Field(power, "combo_override_if_hit")),
              if_release   |-> findPowerByName(ps, Field(power, "combo_override_if_release")),
              if_wall      |-> findPowerByName(ps, Field(power, "combo_override_if_wall")),
              if_button    |-> findPowerByName(ps, Field(power, "combo_override_if_button")),
              if_dir       |-> findActiveInputPowers(ps, Field(power, "combo_override_if_dir")),
              if_interrupt |-> findPowerByName(ps, Field(power, "combo_override_if_interrupt"))],
             result)

\* the .map callback of ifDirMatches in getReverseComboTreeForPower
reverseInputOf(ps, p, name, input) ==
    LET parts == split(input, ":")
        dirKey == parts[1]
        powerName == IF Len(parts) >= 2 THEN parts[2] ELSE Null
    IN  IF ~Truthy(dirKey) \/ ~Truthy(powerName) \/ toLowerCase(powerName) # name
        THEN [direction |-> Null, combo |-> 0]
        ELSE LET direction == Direction(toUpperCase(dirKey))
             IN  IF ~Truthy(direction) THEN [direction |-> Null, combo |-> 0]
                 ELSE [direction |-> direction, combo |-> p]

\* powers.flatMap(...) of getReverseComboTreeForPower, from Power p on
RECURSIVE ifDirMatches(_, _, _)
ifDirMatches(ps, p, name) ==
    IF p > Len(ps) THEN <<>>
    ELSE LET dir == Field(ps[p], "combo_override_if_dir")
             inputs == split(dir, ",")
             own == IF ~Truthy(dir) THEN <<>>
                    ELSE filterNonNull([i \in 1..Len(inputs) |->
                                           reverseInputOf(ps, p, name, inputs[i])])
         IN  own \o ifDirMatches(ps, p + 1, name)

\* findMatching(key)[0], taking the last match (a plausible slip)
findMatching_last(ps, key, name) ==
    LET matching == { i \in 1..Len(ps) :
                        Field(ps[i], key) # Null
                        /\ toLowerCase(Field(ps[i], key)) = name }
    IN  IF matching = {} THEN 0 ELSE Max(matching)

\* findMatching(key)[0] of getReverseComboTreeForPower
findMatching(ps, key, name) ==
    LET matching == { i \in 1..Len(ps) :
                        Field(ps[i], key) # Null
                        /\ toLowerCase(Field(ps[i], key)) = name }
    IN  IF matching = {} THEN 0 ELSE Min(matching)

\* getReverseComboTreeForPower (resolveReverse)
getReverseComboTreeForPower(ps, target) ==
    IF ~Truthy(target.power_name) THEN NullTree
    ELSE LET name == toLowerCase(target.power_name)
             matches == ifDirMatches(ps, 1, name)
             tree ==
                 [null         |-> FALSE,
                  normal       |-> findMatching(ps, "combo_name", name),
                  if_hit       |-> findMatching(ps, "combo_override_if_hit", name),
                  if_release   |-> findMatching(ps, "combo_override_if_release", name),
                  if_wall      |-> findMatching(ps, "combo_override_if_wall", name),
                  if_button    |-> findMatching(ps, "combo_override_if_button", name),
                  if_interrupt |-> findMatching(ps, "combo_override_if_interrupt", name),
                  if_dir       |-> IF Len(matches) > 0
                                   THEN [defined |-> TRUE, items |-> matches]
                                   ELSE [defined |-> FALSE, items |-> <<>>]]
         IN  IF allEmpty(tree) THEN NullTree ELSE tree

\* -------------------------------------------------------- Combo Tree Grouper

\* children: {} of a fresh PowerNode
NoChildren ==
    [normal |-> 0, if_hit |-> 0, if_release |-> 0, if_wall |-> 0,
     if_button |-> 0, if_interrupt |-> 0,
     if_dir |-> [defined |-> FALSE, items |-> <<>>]]

\* powers.map(power => ({power, children: {}, expanded: false, parentPaths}));
\* the node of the Power at position i is at position i
initialNodes(ps) ==
    [i \in 1..Len(ps) |->
        [children |-> NoChildren, expanded |-> FALSE, parentPaths |-> {}]]

\* nameMap.get(name.toLowerCase()): nameMap.set runs over the nodes in list
\* order, so the last node of a lower-cased name is the one the map keeps
findNodeByPowerName(ps, name) ==
    IF ~Truthy(name) THEN 0
    ELSE LET kept(matching) == IF matching = {} THEN 0 ELSE Max(matching)
         IN  With({ i \in 1..Len(ps) :
                      /\ Truthy(ps[i].power_name)
                      /\ toLowerCase(ps[i].power_name) = toLowerCase(name) },
                  kept)

\* the combo relationships of a ComboTree that buildComboTree acts on, from
\* scalar slot k on: processComboRelationship returns early for an empty slot
\* and for a target node that is missing or has no power_id
RECURSIVE scalarRelationships(_, _, _)
scalarRelationships(ps, tree, k) ==
    IF k > Len(ScalarSlots) THEN <<>>
    ELSE LET comboPower == tree[ScalarSlots[k]]
             processed(targetNode) ==
                 IF targetNode # 0 /\ ps[targetNode].power_id # ""
                 THEN <<[slot |-> ScalarSlots[k], direction |-> Null,
                         node |-> targetNode]>>
                 ELSE <<>>
         IN  With(IF comboPower = 0 THEN 0
                  ELSE findNodeByPowerName(ps, ps[comboPower].power_name),
                  processed)
             \o scalarRelationships(ps, tree, k + 1)

\* the entries of comboTree.if_dir that the map keeps, from entry j on
RECURSIVE dirRelationships(_, _, _)
dirRelationships(ps, tree, j) ==
    IF j > Len(tree.if_dir.items) THEN <<>>
    ELSE LET input == tree.if_dir.items[j]
             mapped(targetNode) ==
                 IF targetNode # 0 /\ ps[targetNode].power_id # ""
                 THEN <<[slot |-> "if_dir", direction |-> input.direction,
                         node |-> targetNode]>>
                 ELSE <<>>
         IN  With(findNodeByPowerName(ps, ps[input.combo].power_name), mapped)
             \o dirRelationships(ps, tree, j + 1)

\* what one call of buildComboTree works through on its comboTree, in order:
\* the six processComboRelationship calls, then the directional entries
relationships(ps, tree) ==
    scalarRelationships(ps, tree, 1) \o dirRelationships(ps, tree, 1)

\* buildComboTree entered without looking at processedIds (a plausible slip)
entersBuild_unguarded(ps, n, processedIds) ==
    /\ ps[n].power_id # ""
    /\ getComboTreeForPower(ps, ps[n]) # NullTree

\* the early returns of buildComboTree(node, processedIds): TRUE when the call
\* goes on to process the node's combo relationships
entersBuild(ps, n, processedIds) ==
    /\ ps[n].power_id # ""
    /\ ps[n].power_id \notin processedIds
    /\ getComboTreeForPower(ps, ps[n]) # NullTree

\* the activation record of a call that was entered: processedIds.add(id),
\* const comboTree = getComboTreeForPower(node.power), and the relationship
\* the call handles next
frameOf(ps, n, processedIds) ==
    [node |-> n,
     processedIds |-> processedIds \cup {ps[n].power_id},
     comboTree |-> getComboTreeForPower(ps, ps[n]),
     next |-> 1]

\* the directional children a finished call assigns to node.children.if_dir
dirChildren(ps, tree) ==
    LET kept == dirRelationships(ps, tree, 1)
    IN  [defined |-> TRUE,
         items |-> [j \in 1..Len(kept) |->
                       [direction |-> kept[j].direction, node |-> kept[j].node]]]

\* grouping that keeps the referenced nodes at root level (a plausible slip)
groupRoots_all(ps, referenced, n, acc) ==
    LET parentItem == IF Truthy(ps[n].parent_item) THEN ps[n].parent_item ELSE <<>>
    IN  IF trim(parentItem) = <<>>
        THEN [acc EXCEPT !.ungrouped = Append(@, n)]
        ELSE [acc EXCEPT !.grouped =
                 [key \in DOMAIN @ \cup {parentItem} |->
                     IF key = parentItem
                     THEN (IF key \in DOMAIN @ THEN Append(@[key], n) ELSE <<n>>)
                     ELSE @[key]]]

\* the body of the grouping forEach for node n, on acc = [grouped, ungrouped]
groupRoots(ps, referenced, n, acc) ==
    LET parentItem == IF Truthy(ps[n].parent_item) THEN ps[n].parent_item ELSE <<>>
    IN  IF ps[n].power_id # "" /\ ps[n].power_id \in referenced THEN acc
        ELSE IF trim(parentItem) = <<>>
        THEN [acc EXCEPT !.ungrouped = Append(@, n)]
        ELSE [acc EXCEPT !.grouped =
                 [key \in DOMAIN @ \cup {parentItem} |->
                     IF key = parentItem
                     THEN (IF key \in DOMAIN @ THEN Append(@[key], n) ELSE <<n>>)
                     ELSE @[key]]]

\* no group: the initial groupedPowerNodes, {}
NoGroups == [key \in {} |-> <<>>]

\* nodes.forEach(node => ...) of the grouping, from node n on
RECURSIVE groupAll(_, _, _, _)
groupAll(ps, referenced, n, acc) ==
    IF n > Len(ps) THEN acc
    ELSE LET rest(next) == groupAll(ps, referenced, n + 1, next)
         IN  With(groupRoots(ps, referenced, n, acc), rest)

\* ------------------------------------------------------------ renderPowerNode

\* Object.values(node.children).some(child => child !== undefined && ...)
hasChildren(node) ==
    \/ \E k \in 1..Len(ScalarSlots) : node.children[ScalarSlots[k]] # 0
    \/ node.children.if_dir.defined /\ Len(node.children.if_dir.items) > 0

RECURSIVE renderPowerNode(_, _, _, _, _)
RECURSIVE renderScalarChildren(_, _, _, _, _, _)
RECURSIVE renderDirChildren(_, _, _, _, _, _)

\* the <li> rows of the scalar children of node n, from slot k on
renderScalarChildren(ps, ns, n, path, visited, k) ==
    IF k > Len(ScalarSlots) THEN <<>>
    ELSE LET child == ns[n].children[ScalarSlots[k]]
             own == IF child = 0 THEN <<>>
                    ELSE renderPowerNode(ps, ns, child,
                             Append(path, [slot |-> ScalarSlots[k],
                                           direction |-> Null, node |-> child]),
                             visited)
         IN  own \o renderScalarChildren(ps, ns, n, path, visited, k + 1)

\* the <li> rows of the directional children of node n, from entry j on
renderDirChildren(ps, ns, n, path, visited, j) ==
    IF j > Len(ns[n].children.if_dir.items) THEN <<>>
    ELSE LET dirNode == ns[n].children.if_dir.items[j]
         IN  renderPowerNode(ps, ns, dirNode.node,
                 Append(path, [slot |-> "if_dir", direction |-> dirNode.direction,
                               node |-> dirNode.node]),
                 visited)
             \o renderDirChildren(ps, ns, n, path, visited, j + 1)

\* renderPowerNode without the visited guard below the first level, cut off
\* where the path is longer than the list (a plausible slip)
renderPowerNode_unguarded(ps, ns, n, path, visited) ==
    IF Len(path) > Len(ps) + 1 THEN <<[path |-> path, cycle |-> TRUE]>>
    ELSE <<[path |-> path, cycle |-> FALSE]>>
         \o (IF hasChildren(ns[n]) /\ ns[n].expanded
             THEN renderScalarChildren(ps, ns, n, path, {}, 1)
                  \o renderDirChildren(ps, ns, n, path, {}, 1)
             ELSE <<>>)

\* renderPowerNode(node, depth, visited): the rows it renders, in document
\* order; a row is the path of (slot, node) steps from the root to its node,
\* and whether it is the "(cycle detected)" leaf
renderPowerNode(ps, ns, n, path, visited) ==
    IF ps[n].power_id # "" /\ ps[n].power_id \in visited
    THEN <<[path |-> path, cycle |-> TRUE]>>
    ELSE LET newVisited == IF ps[n].power_id # ""
                           THEN visited \cup {ps[n].power_id} ELSE visited
         IN  <<[path |-> path, cycle |-> FALSE]>>
             \o (IF hasChildren(ns[n]) /\ ns[n].expanded
                 THEN renderScalarChildren(ps, ns, n, path, newVisited, 1)
                      \o renderDirChildren(ps, ns, n, path, newVisited, 1)
                 ELSE <<>>)

\* --------------------------------------------------------------- Power lists

\* largest number of Powers in a list
MaxPowers == 3

\* a Power record; power_id is given by WithIds
Power(name, parent, normal, hit, release, wall, button, dir, interrupt) ==
    [power_id                    |-> "",
     power_name                  |-> name,
     parent_item                 |-> parent,
     combo_name                  |-> normal,
     combo_override_if_hit       |-> hit,
     combo_override_if_release   |-> release,
     combo_override_if_wall      |-> wall,
     combo_override_if_button    |-> button,
     combo_override_if_dir       |-> dir,
     combo_override_if_interrupt |-> interrupt,
     has_id                      |-> TRUE]

\* the rows a loaded file is made of: names that differ only in case, names
\* used twice, references to themselves, to each other and to no Power,
\* well-formed and malformed directional entries, grouped and ungrouped rows
PowerRows ==
    { Power(<<"a">>, Null, <<"a">>, Null, Null, Null, Null, Null, Null),
      Power(<<"a">>, <<"g">>, Null, Null, <<"B">>, <<>>, Null, Null, Null),
      Power(<<"b">>, <<" ">>, <<>>, <<"A">>, Null, Null, Null, Null, Null),
      Power(<<"A">>, <<"g">>, Null, Null, Null, Null, Null, Null, Null),
      Power(<<"b">>, Null, Null, Null, Null, Null, Null,
            <<"U", "P", ":", "a", ",", "d", "o", "w", "n", ":", "b">>, Null),
      Power(<<"c">>, <<" ", "g">>, Null, Null, Null, <<"z">>, Null,
            <<"X", "X", ":", "a", ",", "U", "P">>, Null),
      Power(<<"c">>, <<>>, Null, Null, Null, Null, <<"b">>, Null, <<"a">>),
      Power(Null, <<"g">>, <<"a">>, Null, Null, Null, Null, Null, Null),
      [Power(<<"b">>, <<"g">>, <<"a">>, Null, Null, Null, Null, Null, Null)
          EXCEPT !.has_id = FALSE],
      Power(<<"a">>, Null, Null, Null, Null, Null, Null,
            <<"U", "P", ":", "a", ":", "b", ",", "D", "O", "W", "N", ":", "A",
              ",", ",", "u", "p", ":", "z">>, Null) }

\* the rows of a file as loaded: power_id is the row number, or empty
WithIds(rows) ==
    [i \in 1..Len(rows) |->
        [rows[i] EXCEPT !.power_id = IF rows[i].has_id THEN ToString(i) ELSE ""]]

SeqsUpTo(S, n) == UNION { [1..k -> S] : k \in 1..n }

PowerLists == { WithIds(rows) : rows \in SeqsUpTo(PowerRows, MaxPowers) }

\* ---------------------------------------------------------- Timeline Decoder

\* array[i] of a JavaScript array, i counted from 1: undefined past the end
at(array, i) == IF i >= 1 /\ i <= Len(array) THEN array[i] ELSE Null

\* the decimal digits, Digits[d + 1] being the digit of value d
Digits == <<"0", "1", "2", "3", "4", "5", "6", "7", "8", "9">>

IsDigit(c) == \E d \in 1..10 : Digits[d] = c

DigitValue(c) == (CHOOSE d \in 1..10 : Digits[d] = c) - 1

\* the value of a sequence of decimal digits
RECURSIVE decimal(_)
decimal(digits) ==
    IF digits = <<>> THEN 0
    ELSE 10 * decimal(SubSeq(digits, 1, Len(digits) - 1))
            + DigitValue(digits[Len(digits)])

\* the number NaN
NaN == [nan |-> TRUE, value |-> 0]

\* Number(text) over the texts the lists of this module hold, which have no
\* decimal point, exponent, radix prefix or "Infinity": undefined is NaN, a
\* blank text is 0, an optionally signed run of digits is its value, any
\* other text is NaN
Number(text) ==
    IF text = Null THEN NaN
    ELSE LET parsed(trimmed) ==
                 IF trimmed = <<>> THEN [nan |-> FALSE, value |-> 0]
                 ELSE LET signed == trimmed[1] \in {"-", "+"}
                          digits == IF signed THEN Tail(trimmed) ELSE trimmed
                      IN  IF digits # <<>>
                             /\ \A i \in 1..Len(digits) : IsDigit(digits[i])
                          THEN [nan |-> FALSE,
                                value |-> IF trimmed[1] = "-" THEN 0 - decimal(digits)
                                          ELSE decimal(digits)]
                          ELSE NaN
         IN  With(trim(text), parsed)

\* n || 0
orZero(n) == IF n.nan \/ n.value = 0 THEN 0 ELSE n.value

\* text || undefined
orUndefined(text) == IF Truthy(text) THEN text ELSE Null

\* power.field?.split(",") || []
groupsOf(text) == IF text = Null THEN <<>> ELSE split(text, ",")

\* hitboxes of a Cast past the end of parseHitboxes' result (undefined)
NoHitboxes ==
    [defined |-> FALSE, aoe_radius_x |-> <<>>, aoe_radius_y |-> <<>>,
     center_offset_x |-> <<>>, center_offset_y |-> <<>>]

\* field ? field.split(",").map(s => s.split("&")) : []
partsOf(text) ==
    IF ~Truthy(text) THEN <<>>
    ELSE LET nested(groups) == [i \in 1..Len(groups) |-> split(groups[i], "&")]
         IN  With(split(text, ","), nested)

\* parts[i] || [] of parseHitboxes
partOrEmpty(parts, i) == IF i <= Len(parts) THEN parts[i] ELSE <<>>

\* parseHitboxes(rx, ry, cx, cy)
parseHitboxes(rx, ry, cx, cy) ==
    LET result(parts) ==
            [i \in 1..Max({Len(parts[1]), Len(parts[2]),
                           Len(parts[3]), Len(parts[4])}) |->
                [defined         |-> TRUE,
                 aoe_radius_x    |-> partOrEmpty(parts[1], i),
                 aoe_radius_y    |-> partOrEmpty(parts[2], i),
                 center_offset_x |-> partOrEmpty(parts[3], i),
                 center_offset_y |-> partOrEmpty(parts[4], i)]]
    IN  With(<<partsOf(rx), partsOf(ry), partsOf(cx), partsOf(cy)>>, result)

\* cast_time of a Cast without a cast-time entry
NoCastTime == [defined |-> FALSE, startup |-> 0, active |-> 0]

\* castTimeUnit of getVisualizerData, decoding "+ 1" wrongly left out (a
\* plausible slip)
castTimeUnit_exclusive(entry) ==
    IF ~Truthy(entry) THEN NoCastTime
    ELSE LET unit(castTimeSplit) ==
                 [defined |-> TRUE,
                  startup |-> orZero(Number(at(castTimeSplit, 1))),
                  active  |-> orZero(Number(at(castTimeSplit, 2)))]
         IN  With(split(split(entry, "@")[1], ":"), unit)

\* castTimeUnit of getVisualizerData for the entry castTimes[i]
castTimeUnit(entry) ==
    IF ~Truthy(entry) THEN NoCastTime
    ELSE LET unit(castTimeSplit) ==
                 [defined |-> TRUE,
                  startup |-> orZero(Number(at(castTimeSplit, 1))),
                  active  |-> orZero(Number(at(castTimeSplit, 2))) + 1]
         IN  With(split(split(entry, "@")[1], ":"), unit)

\* the scalar fields of a Cast other than cast_time, in the order of
\* getVisualizerData
CastFields ==
    <<"cast_impulse_x", "cast_impulse_y", "fire_impulse_x", "fire_impulse_y",
      "base_damage", "variable_impulse", "fixed_impulse",
      "impulse_offset_x", "impulse_offset_y">>

\* getVisualizerData(power).casts for a Power that is not null
getVisualizerData(power) ==
    LET castsOf(castTimes, scalars, hitboxes) ==
            LET length == Max({Len(castTimes), Len(hitboxes)}
                              \cup { Len(scalars[k]) : k \in DOMAIN scalars })
            IN  [i \in 1..length |->
                    [cast_time        |-> castTimeUnit(at(castTimes, i)),
                     cast_impulse_x   |-> orUndefined(at(scalars[1], i)),
                     cast_impulse_y   |-> orUndefined(at(scalars[2], i)),
                     fire_impulse_x   |-> orUndefined(at(scalars[3], i)),
                     fire_impulse_y   |-> orUndefined(at(scalars[4], i)),
                     base_damage      |-> orUndefined(at(scalars[5], i)),
                     variable_impulse |-> orUndefined(at(scalars[6], i)),
                     fixed_impulse    |-> orUndefined(at(scalars[7], i)),
                     impulse_offset_x |-> orUndefined(at(scalars[8], i)),
                     impulse_offset_y |-> orUndefined(at(scalars[9], i)),
                     hitboxes         |-> IF i <= Len(hitboxes) THEN hitboxes[i]
                                          ELSE NoHitboxes]]
        decoded(parsed) == castsOf(parsed[1], parsed[2], parsed[3])
    IN  With(<<groupsOf(Field(power, "cast_time")),
               [k \in 1..Len(CastFields) |-> groupsOf(Field(power, CastFields[k]))],
               parseHitboxes(Field(power, "aoe_radius_x"),
                             Field(power, "aoe_radius_y"),
                             Field(power, "center_offset_x"),
                             Field(power, "center_offset_y"))>>,
             decoded)

\* ------------------------------------------------------------ Timeline Cursor

\* largest number of Casts of a decoded Power
MaxCasts == 3

\* largest startup of a cast-time entry
MaxStartup == 1

\* largest "active" text of a cast-time entry; the decoder adds one to it
MaxActive == 1

\* the cast_time values getVisualizerData produces: undefined, or startup and
\* active + 1 of the entry
CastTimes ==
    {NoCastTime}
        \cup { [defined |-> TRUE, startup |-> st, active |-> ac + 1] :
                 st \in 0..MaxStartup, ac \in 0..MaxActive }

\* the Cast decoded for a Power that has no other field than cast_time
CastOf(castTime) ==
    [cast_time        |-> castTime,
     cast_impulse_x   |-> Null, cast_impulse_y   |-> Null,
     fire_impulse_x   |-> Null, fire_impulse_y   |-> Null,
     base_damage      |-> Null, variable_impulse |-> Null,
     fixed_impulse    |-> Null,
     impulse_offset_x |-> Null, impulse_offset_y |-> Null,
     hitboxes         |-> NoHitboxes]

\* the decoded Cast sequences, by their cast_time
CastLists ==
    UNION { [1..k -> { CastOf(castTime) : castTime \in CastTimes }] :
              k \in 0..MaxCasts }

\* getTotalFramesForCast without the one-frame collapse (a plausible slip)
getTotalFramesForCast_plain(cs, castIndex) ==
    LET present == castIndex >= 0 /\ castIndex < Len(cs)
                      /\ cs[castIndex + 1].cast_time.defined
        startup == IF present THEN cs[castIndex + 1].cast_time.startup ELSE 0
        active == IF present THEN cs[castIndex + 1].cast_time.active ELSE 0
    IN  startup + active

\* getTotalFramesForCast(castIndex), castIndex counted from 0; casts[castIndex]
\* is undefined outside the list
getTotalFramesForCast(cs, castIndex) ==
    LET present == castIndex >= 0 /\ castIndex < Len(cs)
                      /\ cs[castIndex + 1].cast_time.defined
        startup == IF present THEN cs[castIndex + 1].cast_time.startup ELSE 0
        active == IF present THEN cs[castIndex + 1].cast_time.active ELSE 0
    IN  IF startup > 0 /\ active = 1 THEN 1 ELSE startup + active

\* getCumulativeFrames(upToCastIndex)
RECURSIVE getCumulativeFrames(_, _)
getCumulativeFrames(cs, upToCastIndex) ==
    IF upToCastIndex <= 0 THEN 0
    ELSE getCumulativeFrames(cs, upToCastIndex - 1)
            + getTotalFramesForCast(cs, upToCastIndex - 1)

RECURSIVE castAndFrameFrom_inclusive(_, _, _)
RECURSIVE castAndFrameFrom(_, _, _)

\* the while loop of getCurrentCastAndFrame, comparing with <= (a plausible
\* slip)
castAndFrameFrom_inclusive(cs, castIndex, remainingFrames) ==
    IF castIndex < Len(cs)
    THEN LET castFrames == getTotalFramesForCast(cs, castIndex)
         IN  IF remainingFrames <= castFrames
             THEN [castIndex |-> castIndex, frameWithinCast |-> remainingFrames]
             ELSE castAndFrameFrom(cs, castIndex + 1, remainingFrames - castFrames)
    ELSE LET lastCastIndex == Max({0, Len(cs) - 1})
         IN  [castIndex |-> lastCastIndex,
              frameWithinCast |-> getTotalFramesForCast(cs, lastCastIndex) - 1]

\* the while loop of getCurrentCastAndFrame, at castIndex with remainingFrames
castAndFrameFrom(cs, castIndex, remainingFrames) ==
    IF castIndex < Len(cs)
    THEN LET castFrames == getTotalFramesForCast(cs, castIndex)
         IN  IF remainingFrames < castFrames
             THEN [castIndex |-> castIndex, frameWithinCast |-> remainingFrames]
             ELSE castAndFrameFrom(cs, castIndex + 1, remainingFrames - castFrames)
    ELSE LET lastCastIndex == Max({0, Len(cs) - 1})
         IN  [castIndex |-> lastCastIndex,
              frameWithinCast |-> getTotalFramesForCast(cs, lastCastIndex) - 1]

\* getCurrentCastAndFrame(globalFrame)
getCurrentCastAndFrame(cs, globalFrame) == castAndFrameFrom(cs, 0, globalFrame)

\* getTotalFramesAllCasts()
getTotalFramesAllCasts(cs) == getCumulativeFrames(cs, Len(cs))

\* ---------------------------------------------------------- Hitbox rendering

\* visualizerData.casts[index]?.hitboxes, index counted from 0
hitboxesAt(cs, index) ==
    IF index >= 0 /\ index < Len(cs) THEN cs[index + 1].hitboxes ELSE NoHitboxes

\* one field of getHitboxDataWithFallback:
\* (currentHitbox?.f ?? []).length > 0 ? currentHitbox.f : firstHitbox?.f || []
hitboxField(currentHitbox, firstHitbox, f) ==
    IF Len(currentHitbox[f]) > 0 THEN currentHitbox[f] ELSE firstHitbox[f]

\* getHitboxDataWithFallback(currentIndex)
getHitboxDataWithFallback(cs, currentIndex) ==
    LET currentHitbox == hitboxesAt(cs, currentIndex)
        firstHitbox == hitboxesAt(cs, 0)
    IN  [aoe_radius_x    |-> hitboxField(currentHitbox, firstHitbox, "aoe_radius_x"),
         aoe_radius_y    |-> hitboxField(currentHitbox, firstHitbox, "aoe_radius_y"),
         center_offset_x |-> hitboxField(currentHitbox, firstHitbox, "center_offset_x"),
         center_offset_y |-> hitboxField(currentHitbox, firstHitbox, "center_offset_y")]

\* visualizerData.casts[index]?.f, index counted from 0
castFieldAt(cs, index, f) ==
    IF index >= 0 /\ index < Len(cs) THEN cs[index + 1][f] ELSE Null

\* one field of getCastDataWithFallback, falling back whenever Cast 0 has a
\* value, also over the Cast's own value (a plausible slip)
castField_first(cs, currentIndex, f, default) ==
    IF Truthy(castFieldAt(cs, 0, f)) THEN castFieldAt(cs, 0, f)
    ELSE IF Truthy(castFieldAt(cs, currentIndex, f))
    THEN castFieldAt(cs, currentIndex, f)
    ELSE default

\* one field of getCastDataWithFallback:
\* (currentCast?.f ?? "").length > 0 ? currentCast.f : firstCast?.f || default
castField(cs, currentIndex, f, default) ==
    IF Truthy(castFieldAt(cs, currentIndex, f))
    THEN castFieldAt(cs, currentIndex, f)
    ELSE IF Truthy(castFieldAt(cs, 0, f)) THEN castFieldAt(cs, 0, f)
    ELSE default

\* getCastDataWithFallback(currentIndex)
getCastDataWithFallback(cs, currentIndex) ==
    [base_damage      |-> castField(cs, currentIndex, "base_damage", <<"0">>),
     variable_impulse |-> castField(cs, currentIndex, "variable_impulse", <<"0">>),
     fixed_impulse    |-> castField(cs, currentIndex, "fixed_impulse", <<"0">>),
     impulse_offset_x |-> castField(cs, currentIndex, "impulse_offset_x", Null),
     impulse_offset_y |-> castField(cs, currentIndex, "impulse_offset_y", Null)]

\* what the map callback returns where rx or ry is missing
NoUnit == [shown |-> FALSE]

\* the test of the immediately invoked function of the hitbox block, with the
\* active window starting one frame late (a plausible slip)
inActiveWindow_late(startup, active, frameWithinCast) ==
    IF startup > 0 /\ active = 1 THEN frameWithinCast = 0
    ELSE frameWithinCast > startup /\ frameWithinCast < startup + active

\* the test of the immediately invoked function of the hitbox block
inActiveWindow(startup, active, frameWithinCast) ==
    IF startup > 0 /\ active = 1 THEN frameWithinCast = 0
    ELSE frameWithinCast >= startup /\ frameWithinCast < startup + active

\* the hitbox block of the svg: the HitboxUnit elements it renders, each by
\* the texts handed to parseFloat and the impulse offsets; NoUnit for null
hitboxUnits(cs, castIndex, frame, hitbox, cast) ==
    LET exists == castIndex >= 0 /\ castIndex < Len(cs)
        current == cs[castIndex + 1]
    IN  IF exists /\ current.base_damage = <<"0">> THEN <<>>
        ELSE IF ~(exists /\ current.cast_time.defined) THEN <<>>
        ELSE IF ~inActiveWindow(current.cast_time.startup,
                                current.cast_time.active,
                                getCurrentCastAndFrame(cs, frame).frameWithinCast)
        THEN <<>>
        ELSE [index \in 1..Len(hitbox.aoe_radius_x) |->
                 LET rx == hitbox.aoe_radius_x[index]
                     ry == at(hitbox.aoe_radius_y, index)
                     cx == at(hitbox.center_offset_x, index)
                     cy == at(hitbox.center_offset_y, index)
                 IN  IF Truthy(rx) /\ Truthy(ry)
                     THEN [shown |-> TRUE, rx |-> rx, ry |-> ry,
                           cx |-> IF Truthy(cx) THEN cx ELSE <<"0">>,
                           cy |-> IF Truthy(cy) THEN cy ELSE <<"0">>,
                           vx |-> cast.impulse_offset_x,
                           vy |-> cast.impulse_offset_y]
                     ELSE NoUnit]

\* one render of PowerVisualizer: hitbox and cast, the "Total Frame" and "Cast
\* Frame" counts and position of the frame controls, and the hitbox block
renderVisualizer(cs, castIndex, frame) ==
    LET drawn(hitbox, cast) ==
            [mounted     |-> TRUE,
             hitbox      |-> hitbox,
             cast        |-> cast,
             totalFrames |-> getTotalFramesAllCasts(cs),
             castFrames  |-> getTotalFramesForCast(cs, castIndex),
             castFrame   |-> getCurrentCastAndFrame(cs, frame),
             units       |-> hitboxUnits(cs, castIndex, frame, hitbox, cast)]
    IN  drawn(getHitboxDataWithFallback(cs, castIndex),
              getCastDataWithFallback(cs, castIndex))

\* ---------------------------------------------------------- Timed Power lists

\* largest number of Powers in a loaded list of timed Powers
MaxTimedPowers == 2

\* largest number of Powers a list grows to by creating Powers
MaxListed == 3

\* longest cast_time text of the exhaustive decoder inputs
MaxTimeText == 4

\* the keys of a Power that the timeline decoder reads
TimelineKeys ==
    {"cast_time", "cast_impulse_x", "cast_impulse_y", "fire_impulse_x",
     "fire_impulse_y", "base_damage", "variable_impulse", "fixed_impulse",
     "impulse_offset_x", "impulse_offset_y", "aoe_radius_x", "aoe_radius_y",
     "center_offset_x", "center_offset_y"}

\* a row of a loaded file with its power_id and timeline fields; the fields
\* not given are null
Timed(id, fields) ==
    LET plain == Power(Null, Null, Null, Null, Null, Null, Null, Null, Null)
    IN  [key \in DOMAIN plain \cup TimelineKeys |->
            IF key = "power_id" THEN id
            ELSE IF key \in DOMAIN fields THEN fields[key]
            ELSE IF key \in DOMAIN plain THEN plain[key]
            ELSE Null]

\* the rows of the timed lists: one and several Casts, Casts of one frame and
\* of no frame, a suppressed Cast, fields given once and fields with empty
\* groups, several boxes in a Cast, no timeline at all, power_ids used twice
\* and left empty
TimedRows ==
    { Timed("1", [cast_time    |-> <<"1", ":", "1", ",", "5", ":", "0">>,
                  aoe_radius_x |-> <<"1", "0">>,
                  aoe_radius_y |-> <<"1", "0">>]),
      Timed("2", [cast_time       |-> <<"0", ":", "1", ",", ",", "0", ":", "1">>,
                  aoe_radius_x    |-> <<"1", "0", ",">>,
                  aoe_radius_y    |-> <<"1", "0", ",", "2", "0">>,
                  center_offset_x |-> <<"5">>]),
      Timed("1", [cast_time    |-> <<"2", ":", "2">>,
                  base_damage  |-> <<"0">>,
                  aoe_radius_x |-> <<"3", "&", "4">>,
                  aoe_radius_y |-> <<"3", "&", "4">>]),
      Timed("3", [cast_time    |-> <<"0", ":", "1", ",", "0", ":", "1">>,
                  base_damage  |-> <<"0", ",">>,
                  aoe_radius_x |-> <<"7">>,
                  aoe_radius_y |-> <<"7">>]),
      Timed("",  [cast_time        |-> <<"1", ":", "0", ",", "1", ":", "1">>,
                  base_damage      |-> <<"1", "0", ",">>,
                  variable_impulse |-> <<",", "4">>,
                  fixed_impulse    |-> <<"2", ",", "3">>,
                  impulse_offset_x |-> <<"1", ",">>,
                  aoe_radius_x     |-> <<"7">>,
                  aoe_radius_y     |-> <<"7", "&", "8">>]),
      Timed("",  [cast_time |-> Null]),
      Timed("4", [cast_time    |-> <<"-", "1", ":", "2", ",", "1", ":", "1">>,
                  fixed_impulse |-> <<"9">>,
                  aoe_radius_x |-> <<"6">>,
                  aoe_radius_y |-> <<"6">>,
                  center_offset_y |-> <<"&", "2">>]) }

\* the loaded lists of timed Powers; the power_id of a row is what the file
\* says, so two rows may carry the same one
TimedLists == SeqsUpTo(TimedRows, MaxTimedPowers)

\* the characters of the exhaustive cast_time texts
TimeAlphabet == {"0", "1", "-", ":", "@", ",", "a"}

\* cast_time texts the documentation gives as examples
SampleTimes ==
    { <<"1", "2", ":", "3", "@", "s", "o", "m", "e", "t", "h", "i", "n", "g">>,
      <<"5", ":", "0">>,
      <<"7">>,
      <<"-", "3", ":", "-", "5">> }

\* every cast_time text up to MaxTimeText characters, and the examples
TimeTexts ==
    UNION { [1..k -> TimeAlphabet] : k \in 0..MaxTimeText } \cup SampleTimes

\* the lists of one Power that has a cast_time and no other timeline field
DecoderLists == { <<Timed("1", [cast_time |-> text])>> : text \in TimeTexts }

\* -------------------------------------------------------------------- state

\* deepest nesting of buildComboTree calls the engine's call stack holds
MaxCallStack == 5

VARIABLES
    powers,               \* PowerEditor: the Power list
    searchQuery,          \* PowerEditor: the text of the search box
    currentFilePath,      \* PowerEditor: the path of the loaded file, or null
    inFlight,             \* the invoke() calls to the backend not settled yet
    selectedPower,        \* PowerEditor: position of the entry the selection was
                          \* taken from, 0 for null
    selected,             \* PowerEditor: selectedPower, the Power object itself
    comboTree,            \* ComboTreeViewer prop: getComboTreeForPower(selectedPower)
    reverseComboTree,     \* ComboTreeViewer prop: getReverseComboTreeForPower(selectedPower)
    effect,               \* PowerList: where the useEffect on [powers] is
    forEachIndex,         \* PowerList effect: the node nodes.forEach(buildComboTree) is at
    callStack,            \* PowerList effect: the buildComboTree calls in progress
    nodes,                \* PowerList effect: the PowerNode objects, by position
    referencedNodes,      \* PowerList effect: the ids found referenced
    groupedPowerNodes,    \* PowerList: parent_item -> root nodes
    ungroupedPowerNodes,  \* PowerList: root nodes without a group
    rendered,             \* PowerList: the last rendering of a root node
    toggle,               \* PowerList: "RangeError" once toggleNode has thrown
    casts,                \* PowerVisualizer prop: visualizerData.casts
    currentCastIndex,     \* PowerVisualizer: castIndex of the cursor
    currentFrame,         \* PowerVisualizer: global frameIndex of the cursor
    previousPowerIdRef,   \* PowerVisualizer: the ref of the reset effect
    view                  \* PowerVisualizer: what its last render computed

editorVars == <<searchQuery, currentFilePath, inFlight>>

resolveVars == <<selectedPower, selected, comboTree, reverseComboTree>>

buildVars == <<effect, forEachIndex, callStack, nodes, referencedNodes>>

forestVars ==
    <<buildVars, groupedPowerNodes, ungroupedPowerNodes, rendered, toggle>>

cursorVars ==
    <<casts, currentCastIndex, currentFrame, previousPowerIdRef, view>>

vars == <<powers, editorVars, resolveVars, forestVars, cursorVars>>

\* the file paths of the session
Paths == {"a.csv", "b.csv"}

\* null, for selectedPower
NoPower == [isNull |-> TRUE]

\* the positions of the Powers the search effect keeps:
\* power.power_name?.toLowerCase().includes(searchQuery.toLowerCase())
\* an empty query keeps them all
filteredPositions(ps, query) ==
    IF query = <<>> THEN [i \in 1..Len(ps) |-> i]
    ELSE SelectSeq([i \in 1..Len(ps) |-> i],
                   LAMBDA i : /\ ps[i].power_name # Null
                              /\ includes(toLowerCase(ps[i].power_name),
                                          toLowerCase(query)))

\* the effect on [searchQuery, powers] of PowerEditor: the list handed to
\* PowerList
filterPowers(ps, query) ==
    IF query = <<>> THEN ps
    ELSE LET kept == filteredPositions(ps, query)
         IN  [i \in 1..Len(kept) |-> ps[kept[i]]]

\* filteredPowers, the powers prop of PowerList
filteredPowers == filterPowers(powers, searchQuery)

\* a file is loaded, the search box is empty and no call is in flight
FileLoaded ==
    /\ searchQuery = <<>>
    /\ currentFilePath = "a.csv"
    /\ inFlight = {}

\* nothing selected: useState(null) of selectedPower
NothingSelected ==
    /\ selectedPower = 0
    /\ selected = NoPower
    /\ comboTree = NullTree
    /\ reverseComboTree = NullTree

\* nothing rendered yet
NoRendering == [root |-> 0, opened |-> FALSE, rows |-> <<>>]

\* the useState initial values of PowerList; no effect has run
NoForest ==
    /\ forEachIndex = 0
    /\ callStack = <<>>
    /\ nodes = <<>>
    /\ referencedNodes = {}
    /\ groupedPowerNodes = NoGroups
    /\ ungroupedPowerNodes = <<>>
    /\ rendered = NoRendering
    /\ toggle = "idle"

\* useRef<string | null>(null)
NullRef == [isNull |-> TRUE, current |-> ""]

\* the render of a PowerVisualizer that is not mounted
NoView == [mounted |-> FALSE]

\* no PowerVisualizer is mounted
NoCursor ==
    /\ casts = <<>>
    /\ currentCastIndex = 0
    /\ currentFrame = 0
    /\ previousPowerIdRef = NullRef
    /\ view = NoView

\* ------------------------------------------- selection and the combo viewer

\* a list is loaded and nothing is selected
InitResolve ==
    /\ powers \in PowerLists
    /\ FileLoaded
    /\ NothingSelected
    /\ effect = "idle"
    /\ NoForest
    /\ NoCursor

\* the reset effect that never resets once the visualizer is mounted (a
\* plausible slip)
resetsCursor_never(mounted, ref, powerId) == ~mounted

\* the effect on [powerId] of PowerVisualizer: TRUE when it sets the cursor to
\* (0, 0); a visualizer mounted by this render starts there with a null ref
resetsCursor(mounted, ref, powerId) ==
    ~mounted \/ ref.isNull \/ ref.current # powerId

\* the render of PowerVisualizer for the Power now selected, and its effect
\* on [powerId]: powerId is selectedPower.power_id ?? ""
showPower(power) ==
    \E reset \in {resetsCursor(selectedPower # 0, previousPowerIdRef,
                                power.power_id)} :
        /\ casts' = getVisualizerData(power)
        /\ currentCastIndex' = IF reset THEN 0 ELSE currentCastIndex
        /\ currentFrame' = IF reset THEN 0 ELSE currentFrame
        /\ previousPowerIdRef' = [isNull |-> FALSE, current |-> power.power_id]
        /\ view' = renderVisualizer(casts', currentCastIndex', currentFrame')

\* setSelectedPower(powers[i]) and the render of ComboTreeViewer and
\* PowerVisualizer that follows
setSelectedPower(i) ==
    /\ selectedPower' = i
    /\ selected' = powers[i]
    /\ comboTree' = getComboTreeForPower(powers, powers[i])
    /\ reverseComboTree' = getReverseComboTreeForPower(powers, powers[i])
    /\ showPower(powers[i])

\* onSelectPower = setSelectedPower, from the list or from the combo viewer
SelectPower(i) ==
    /\ setSelectedPower(i)
    /\ UNCHANGED <<powers, editorVars, forestVars>>

NextResolve == \E i \in 1..Len(powers) : SelectPower(i)

SpecResolve == InitResolve /\ [][NextResolve]_vars

\* ---------------------------------------------------- the power list's forest

\* a list is loaded and PowerList has rendered once: its effect is due
Init ==
    /\ powers \in PowerLists
    /\ FileLoaded
    /\ NothingSelected
    /\ effect = "pending"
    /\ NoForest
    /\ NoCursor

\* useEffect(() => {...}, [powers]) begins: the nodes and the maps are created
StartEffect ==
    /\ effect = "pending"
    /\ effect' = "build"
    /\ nodes' = initialNodes(filteredPowers)
    /\ referencedNodes' = {}
    /\ forEachIndex' = 1
    /\ callStack' = <<>>
    /\ UNCHANGED <<powers, editorVars, resolveVars, groupedPowerNodes, ungroupedPowerNodes,
                   rendered, toggle, cursorVars>>

\* nodes.forEach(node => buildComboTree(node)): the call for the next node,
\* with a fresh processedIds
CallRoot ==
    /\ effect = "build"
    /\ callStack = <<>>
    /\ forEachIndex <= Len(filteredPowers)
    /\ callStack' = IF entersBuild(filteredPowers, forEachIndex, {})
                    THEN <<frameOf(filteredPowers, forEachIndex, {})>>
                    ELSE <<>>
    /\ forEachIndex' = forEachIndex + 1
    /\ UNCHANGED <<powers, editorVars, resolveVars, effect, nodes, referencedNodes,
                   groupedPowerNodes, ungroupedPowerNodes, rendered, toggle, cursorVars>>

\* the call in progress handles its next combo relationship: the child slot is
\* set, the target is marked referenced, addParentRelationship runs, and
\* buildComboTree(targetNode, new Set(processedIds)) is called; a call that
\* does not fit the call stack throws a RangeError out of the effect
ProcessRelationship ==
    /\ effect = "build"
    /\ callStack # <<>>
    /\ \E top \in {callStack[Len(callStack)]} :
       \E todo \in {relationships(filteredPowers, top.comboTree)} :
          /\ top.next <= Len(todo)
          /\ \E rel \in {todo[top.next]} :
             \E calls \in {entersBuild(filteredPowers, rel.node, top.processedIds)} :
                LET node == top.node
                    targetNode == rel.node
                    withChild ==
                        IF rel.slot = "if_dir" THEN nodes
                        ELSE [nodes EXCEPT ![node].children[rel.slot] = targetNode]
                    caller == [callStack EXCEPT ![Len(callStack)].next = @ + 1]
                IN  /\ nodes' = [withChild EXCEPT ![targetNode].parentPaths =
                                    @ \cup {filteredPowers[node].power_id}
                                      \cup nodes[node].parentPaths]
                    /\ referencedNodes' =
                          referencedNodes \cup {filteredPowers[targetNode].power_id}
                    /\ IF calls /\ Len(callStack) >= MaxCallStack
                       THEN /\ effect' = "RangeError"
                            /\ callStack' = callStack
                       ELSE /\ effect' = effect
                            /\ callStack' =
                                  IF calls
                                  THEN Append(caller, frameOf(filteredPowers, targetNode,
                                                              top.processedIds))
                                  ELSE caller
    /\ UNCHANGED <<powers, editorVars, resolveVars, forEachIndex, groupedPowerNodes,
                   ungroupedPowerNodes, rendered, toggle, cursorVars>>

\* the call in progress has handled its relationships: node.children.if_dir is
\* assigned when comboTree.if_dir is not empty, and the call returns
ReturnFromCall ==
    /\ effect = "build"
    /\ callStack # <<>>
    /\ \E top \in {callStack[Len(callStack)]} :
          /\ top.next > Len(relationships(filteredPowers, top.comboTree))
          /\ nodes' = IF top.comboTree.if_dir.defined
                         /\ Len(top.comboTree.if_dir.items) > 0
                      THEN [nodes EXCEPT ![top.node].children.if_dir =
                                              dirChildren(filteredPowers, top.comboTree)]
                      ELSE nodes
    /\ callStack' = SubSeq(callStack, 1, Len(callStack) - 1)
    /\ UNCHANGED <<powers, editorVars, resolveVars, effect, forEachIndex, referencedNodes,
                   groupedPowerNodes, ungroupedPowerNodes, rendered, toggle, cursorVars>>

\* the build is over: the roots are grouped by parent_item, and
\* setGroupedPowerNodes and setUngroupedPowerNodes publish them
GroupRoots ==
    /\ effect = "build"
    /\ callStack = <<>>
    /\ forEachIndex > Len(filteredPowers)
    /\ LET groups == groupAll(filteredPowers, referencedNodes, 1,
                              [grouped |-> NoGroups, ungrouped |-> <<>>])
       IN  /\ groupedPowerNodes' = groups.grouped
           /\ ungroupedPowerNodes' = groups.ungrouped
    /\ effect' = "done"
    /\ rendered' = NoRendering
    /\ UNCHANGED <<powers, editorVars, resolveVars, forEachIndex, callStack, nodes,
                   referencedNodes, toggle, cursorVars>>

\* the elements of a sequence
Range(seq) == { seq[i] : i \in DOMAIN seq }

\* the nodes shown at root level
RootNodes ==
    Range(ungroupedPowerNodes)
        \cup UNION { Range(groupedPowerNodes[g]) : g \in DOMAIN groupedPowerNodes }

\* the nodes with every expanded flag set, as after the user has opened them
allExpanded(ns) == [i \in DOMAIN ns |-> [ns[i] EXCEPT !.expanded = TRUE]]

\* nodes.map(node => renderPowerNode(node)) for one root node, either with the
\* expanded flags of the nodes or once every node has been opened
RenderRoot(r, opened) ==
    /\ effect = "done"
    /\ r \in RootNodes
    /\ rendered' =
          [root |-> r,
           opened |-> opened,
           rows |-> renderPowerNode(filteredPowers,
                        IF opened THEN allExpanded(nodes) ELSE nodes, r,
                        <<[slot |-> "root", direction |-> Null, node |-> r]>>, {})]
    /\ UNCHANGED <<powers, editorVars, resolveVars, buildVars, groupedPowerNodes,
                   ungroupedPowerNodes, toggle, cursorVars>>

\* the effect, one step at a time
EffectStep ==
    \/ StartEffect
    \/ CallRoot
    \/ ProcessRelationship
    \/ ReturnFromCall
    \/ GroupRoots

Next ==
    \/ EffectStep
    \/ \E r \in 1..Len(powers), opened \in BOOLEAN : RenderRoot(r, opened)

Spec == Init /\ [][Next]_vars

\* the effect is a synchronous callback: once begun it runs until it returns
\* or throws
FairSpec == Spec /\ WF_vars(EffectStep)

\* ------------------------------------------------------- clicking the list

\* Object.entries(childNode.children): the nodes one step below node n
childNodes(ns, n) ==
    ({ ns[n].children[ScalarSlots[k]] : k \in 1..Len(ScalarSlots) } \ {0})
        \cup { ns[n].children.if_dir.items[j].node :
                 j \in 1..Len(ns[n].children.if_dir.items) }

\* updateNodeRecursively(childNode) of toggleNode for the node at position n,
\* as the depth-th nested call: TRUE when the calls nest deeper than the call
\* stack holds. A node of the toggled id returns at once, any other node calls
\* itself for every child, and nothing remembers the nodes already visited
RECURSIVE updateNodeOverflows(_, _, _, _, _)
updateNodeOverflows(ps, ns, n, id, depth) ==
    \/ depth > MaxCallStack
    \/ /\ ps[n].power_id # id
       /\ \E child \in childNodes(ns, n) :
             updateNodeOverflows(ps, ns, child, id, depth + 1)

\* updateNodesRecursively over every root list, grouped and ungrouped: TRUE
\* when a root other than the toggled node recurses until the stack is full
toggleOverflows(ps, ns, roots, id) ==
    \E r \in roots :
        /\ ps[r].power_id # id
        /\ \E child \in childNodes(ns, r) : updateNodeOverflows(ps, ns, child, id, 1)

\* the nodes once toggleNode has returned: {...n, expanded: !n.expanded} for
\* the nodes of the toggled id, on every path from a root; null ids compare
\* equal
toggled(ps, ns, id) ==
    [m \in DOMAIN ns |->
        IF ps[m].power_id = id THEN [ns[m] EXCEPT !.expanded = ~ns[m].expanded]
        ELSE ns[m]]

\* the nodes whose row is on screen once the groups are open: the rows of
\* renderPowerNode that are not a "(cycle detected)" leaf
shownNodes ==
    UNION { { row.path[Len(row.path)].node :
                row \in { row \in Range(renderPowerNode(filteredPowers, nodes, r,
                              <<[slot |-> "root", direction |-> Null, node |-> r]>>,
                              {})) : ~row.cycle } } : r \in RootNodes }

\* the onClick of a row of the list: onSelectPower(node.power) and
\* toggleNode(node); a RangeError thrown by the state updater takes the
\* render down with it
ClickNode(n) ==
    /\ effect = "done"
    /\ toggle = "idle"
    /\ n \in shownNodes
    /\ \E i \in {filteredPositions(powers, searchQuery)[n]} :
          IF toggleOverflows(filteredPowers, nodes, RootNodes,
                             filteredPowers[n].power_id)
          THEN /\ toggle' = "RangeError"
               /\ UNCHANGED <<resolveVars, buildVars, cursorVars>>
          ELSE /\ setSelectedPower(i)
               /\ nodes' = toggled(filteredPowers, nodes, filteredPowers[n].power_id)
               /\ UNCHANGED <<effect, forEachIndex, callStack, referencedNodes,
                              toggle>>
    /\ UNCHANGED <<powers, editorVars, groupedPowerNodes, ungroupedPowerNodes,
                   rendered>>

\* the Powers the combo viewer names, in "Previous Combos" and "Next Combos"
viewerPowers(tree) ==
    IF tree = NullTree THEN {}
    ELSE ({ tree[ScalarSlots[k]] : k \in 1..Len(ScalarSlots) } \ {0})
             \cup { tree.if_dir.items[j].combo : j \in 1..Len(tree.if_dir.items) }

\* the onClick of a name in the combo viewer: onSelectPower(power), and
\* nothing else
ClickCombo(i) ==
    /\ toggle = "idle"
    /\ i \in viewerPowers(comboTree) \cup viewerPowers(reverseComboTree)
    /\ SelectPower(i)

NextList ==
    \/ EffectStep
    \/ \E n \in 1..Len(powers) : ClickNode(n)
    \/ \E i \in 1..Len(powers) : ClickCombo(i)

SpecList == Init /\ [][NextList]_vars

\* ------------------------------------------------------------ the search box

\* the texts typed into the search box
Queries == {<<>>, <<"a">>, <<"c">>}

\* onSearchChange = setSearchQuery: the filter effect hands PowerList another
\* list, and the effect of PowerList on [powers] is due again; the forest of
\* the previous list is gone once it has run
onSearchChange(query) ==
    /\ effect = "done"
    /\ query # searchQuery
    /\ searchQuery' = query
    /\ effect' = "pending"
    /\ forEachIndex' = 0
    /\ callStack' = <<>>
    /\ nodes' = <<>>
    /\ referencedNodes' = {}
    /\ groupedPowerNodes' = NoGroups
    /\ ungroupedPowerNodes' = <<>>
    /\ rendered' = NoRendering
    /\ UNCHANGED <<powers, currentFilePath, inFlight, resolveVars, toggle,
                   cursorVars>>

NextSearch ==
    \/ EffectStep
    \/ \E query \in Queries : onSearchChange(query)

SpecSearch == Init /\ [][NextSearch]_vars

\* ------------------------------------------------- navigating the timeline

\* PowerVisualizer is mounted on a decoded Power: the cursor is at (0, 0)
InitCursor ==
    /\ powers = <<>>
    /\ FileLoaded
    /\ NothingSelected
    /\ effect = "idle"
    /\ NoForest
    /\ casts \in CastLists
    /\ currentCastIndex = 0
    /\ currentFrame = 0
    /\ previousPowerIdRef = [isNull |-> FALSE, current |-> ""]
    /\ view = renderVisualizer(casts, 0, 0)

\* the render that follows a navigation handler
rerender ==
    /\ view' = renderVisualizer(casts, currentCastIndex', currentFrame')
    /\ UNCHANGED <<powers, editorVars, resolveVars, forestVars, casts, previousPowerIdRef>>

handleNext ==
    /\ IF currentCastIndex < Len(casts) - 1
       THEN /\ currentCastIndex' = currentCastIndex + 1
            /\ currentFrame' = getCumulativeFrames(casts, currentCastIndex + 1)
       ELSE UNCHANGED <<currentCastIndex, currentFrame>>
    /\ rerender

handlePrevious ==
    /\ IF currentCastIndex > 0
       THEN /\ currentCastIndex' = currentCastIndex - 1
            /\ currentFrame' = getCumulativeFrames(casts, currentCastIndex - 1)
       ELSE UNCHANGED <<currentCastIndex, currentFrame>>
    /\ rerender

handleNextFrame ==
    /\ IF currentFrame < getTotalFramesAllCasts(casts) - 1
       THEN /\ currentFrame' = currentFrame + 1
            /\ currentCastIndex' =
                  getCurrentCastAndFrame(casts, currentFrame + 1).castIndex
       ELSE UNCHANGED <<currentCastIndex, currentFrame>>
    /\ rerender

handlePreviousFrame ==
    /\ IF currentFrame > 0
       THEN /\ currentFrame' = currentFrame - 1
            /\ currentCastIndex' =
                  getCurrentCastAndFrame(casts, currentFrame - 1).castIndex
       ELSE UNCHANGED <<currentCastIndex, currentFrame>>
    /\ rerender

NextCursor ==
    \/ handleNext
    \/ handlePrevious
    \/ handleNextFrame
    \/ handlePreviousFrame

SpecCursor == InitCursor /\ [][NextCursor]_vars

\* ------------------------------------------------ selecting timed Powers

\* createEmptyPower(): every key of powers[0] set to null
createEmptyPower(ps) ==
    IF ps = <<>> THEN [key \in {} |-> Null]
    ELSE [key \in DOMAIN ps[1] |-> Null]

\* "New Power "
NewPower == <<"N", "e", "w", " ", "P", "o", "w", "e", "r", " ">>

\* "" + n as a text
RECURSIVE textOf(_)
textOf(n) ==
    IF n < 10 THEN <<Digits[n + 1]>>
    ELSE Append(textOf(n \div 10), Digits[(n % 10) + 1])

\* the emptyPower of handleCreatePower, with its power_id and power_name
newPower(ps) ==
    LET empty == createEmptyPower(ps)
    IN  [key \in DOMAIN empty \cup {"power_id", "power_name"} |->
            IF key = "power_id" THEN ToString(Len(ps) + 1)
            ELSE IF key = "power_name" THEN NewPower \o textOf(Len(ps) + 1)
            ELSE Null]

\* prevPowers.findIndex(power => power.power_id === selectedPower.power_id),
\* counted from 1; 0 for -1 and for no selection
selectedIndex(ps, power) ==
    IF power = NoPower THEN 0
    ELSE LET same == { j \in 1..Len(ps) : ps[j].power_id = power.power_id }
         IN  IF same = {} THEN 0 ELSE Min(same)

\* handleCreatePower: the new Power goes next to the selected one, or to the
\* end, and becomes the selection; the renders that follow
handleCreatePower ==
    /\ Len(powers) < MaxListed
    /\ \E found \in {selectedIndex(powers, selected)} :
       \E place \in {IF found # 0 THEN found + 1 ELSE Len(powers) + 1} :
          /\ powers' = SubSeq(powers, 1, place - 1) \o <<newPower(powers)>>
                           \o SubSeq(powers, place, Len(powers))
          /\ selectedPower' = place
          /\ selected' = powers'[place]
          /\ comboTree' = getComboTreeForPower(powers', powers'[place])
          /\ reverseComboTree' = getReverseComboTreeForPower(powers', powers'[place])
          /\ showPower(powers'[place])
    /\ UNCHANGED <<editorVars, forestVars>>

\* a list of timed Powers is loaded and nothing is selected
InitVisualizer ==
    /\ powers \in TimedLists
    /\ FileLoaded
    /\ NothingSelected
    /\ effect = "idle"
    /\ NoForest
    /\ NoCursor

NextVisualizer ==
    \/ \E i \in 1..Len(powers) : SelectPower(i)
    \/ handleCreatePower
    \/ selectedPower # 0 /\ handleNext
    \/ selectedPower # 0 /\ handlePrevious
    \/ selectedPower # 0 /\ handleNextFrame
    \/ selectedPower # 0 /\ handlePreviousFrame

SpecVisualizer == InitVisualizer /\ [][NextVisualizer]_vars

\* a Power with a cast_time is loaded and nothing is selected
InitDecoder ==
    /\ powers \in DecoderLists
    /\ FileLoaded
    /\ NothingSelected
    /\ effect = "idle"
    /\ NoForest
    /\ NoCursor

SpecDecoder == InitDecoder /\ [][NextResolve]_vars

\* ------------------------------------------------ creating and deleting Powers

\* handleDeletePower: every Power of the selected power_id leaves the list and
\* the selection is cleared, which unmounts the combo viewer and the
\* visualizer
handleDeletePower ==
    /\ selected # NoPower
    /\ powers' = SelectSeq(powers, LAMBDA power : power.power_id # selected.power_id)
    /\ selectedPower' = 0
    /\ selected' = NoPower
    /\ comboTree' = NullTree
    /\ reverseComboTree' = NullTree
    /\ casts' = <<>>
    /\ currentCastIndex' = 0
    /\ currentFrame' = 0
    /\ previousPowerIdRef' = NullRef
    /\ view' = NoView
    /\ UNCHANGED <<editorVars, forestVars>>

\* the power_ids of a list are pairwise distinct, and every Power has one
distinctIds(ps) ==
    \A i, j \in 1..Len(ps) :
        ps[i].power_id # "" /\ (i # j => ps[i].power_id # ps[j].power_id)

\* a list with pairwise distinct power_ids is loaded and nothing is selected
InitPowers ==
    /\ powers \in { ps \in TimedLists : distinctIds(ps) }
    /\ FileLoaded
    /\ NothingSelected
    /\ effect = "idle"
    /\ NoForest
    /\ NoCursor

NextPowers ==
    \/ \E i \in 1..Len(powers) : SelectPower(i)
    \/ handleCreatePower
    \/ handleDeletePower

SpecPowers == InitPowers /\ [][NextPowers]_vars

\* ------------------------------------------------- editing the selected Power

\* handlePowerChange(updatedPower): the record becomes the selection, and
\* every list entry that carries its power_id is replaced by it; the renders
\* that follow
handlePowerChange(updatedPower) ==
    /\ selected' = updatedPower
    /\ powers' = [j \in 1..Len(powers) |->
                     IF powers[j].power_id = updatedPower.power_id
                     THEN updatedPower ELSE powers[j]]
    /\ selectedPower' = selectedPower
    /\ comboTree' = getComboTreeForPower(powers', updatedPower)
    /\ reverseComboTree' = getReverseComboTreeForPower(powers', updatedPower)
    /\ showPower(updatedPower)
    /\ UNCHANGED <<editorVars, forestVars>>

\* the fields edited in the form of PowerDetails
EditKeys == {"power_id", "cast_time"}

\* the texts typed into a field of the form
EditValues(key) ==
    IF key = "power_id" THEN {"2", "9"}
    ELSE {<<>>, <<"1", ":", "1">>, <<"0", ":", "1", ",", "1", ":", "0">>}

\* handleInputChange(key, value) of PowerDetails, the onChange of the input of
\* a key of the selected Power: onPowerChange({...power, [key]: value})
handleInputChange(key, value) ==
    /\ selected # NoPower
    /\ key \in DOMAIN selected
    /\ selected[key] # value
    /\ handlePowerChange([selected EXCEPT ![key] = value])

NextEdit ==
    \/ \E i \in 1..Len(powers) : SelectPower(i)
    \/ \E key \in EditKeys : \E value \in EditValues(key) :
          handleInputChange(key, value)
    \/ selectedPower # 0 /\ handleNext
    \/ selectedPower # 0 /\ handlePrevious
    \/ selectedPower # 0 /\ handleNextFrame
    \/ selectedPower # 0 /\ handlePreviousFrame

SpecEdit == InitPowers /\ [][NextEdit]_vars

\* ------------------------------------------------- loading and saving a file

\* most calls to the backend in flight at once
MaxInFlight == 2

\* the lists the backend returns for a file; no Power is in two of them
FileLists ==
    { <<Timed("1", [cast_time |-> <<"1", ":", "1">>]),
        Timed("2", [cast_time |-> <<"2", ":", "2">>])>>,
      <<Timed("3", [cast_time |-> <<"0", ":", "1">>])>> }

\* invoke("load_powers_from_path", {filePath})
loadCall(filePath) ==
    [command |-> "load_powers_from_path", filePath |-> filePath, updatedList |-> <<>>]

\* invoke("save_power_list_to_path", {filePath, updatedList})
saveCall(filePath, updatedList) ==
    [command |-> "save_power_list_to_path", filePath |-> filePath,
     updatedList |-> updatedList]

\* setPowers(loadedPowers) that keeps the Powers loaded before (a plausible
\* slip)
setPowers_appended(prevPowers, loadedPowers) == prevPowers \o loadedPowers

\* setPowers(loadedPowers) of handleLoadFile
setPowers(prevPowers, loadedPowers) == loadedPowers

\* handleWriteFile: the calls it makes, none without a current file path
savesTo(filePath, updatedList) ==
    IF filePath = "" THEN {} ELSE {saveCall(filePath, updatedList)}

\* handleLoadFile up to its second await: open() has resolved with a path and
\* the load is asked of the backend; a cancelled dialog changes nothing
handleLoadFile(filePath) ==
    /\ Cardinality(inFlight) < MaxInFlight
    /\ loadCall(filePath) \notin inFlight
    /\ inFlight' = inFlight \cup {loadCall(filePath)}
    /\ UNCHANGED <<powers, searchQuery, currentFilePath, resolveVars, forestVars,
                   cursorVars>>

\* the rest of handleLoadFile once invoke has resolved with loadedPowers:
\* setPowers, setCurrentFilePath and setSelectedPower(null), batched into one
\* render, which unmounts the combo viewer and the visualizer
loadResolves(call, loadedPowers) ==
    /\ call \in inFlight
    /\ call.command = "load_powers_from_path"
    /\ inFlight' = inFlight \ {call}
    /\ powers' = setPowers(powers, loadedPowers)
    /\ currentFilePath' = call.filePath
    /\ selectedPower' = 0
    /\ selected' = NoPower
    /\ comboTree' = NullTree
    /\ reverseComboTree' = NullTree
    /\ casts' = <<>>
    /\ currentCastIndex' = 0
    /\ currentFrame' = 0
    /\ previousPowerIdRef' = NullRef
    /\ view' = NoView
    /\ UNCHANGED <<searchQuery, forestVars>>

\* the catch of handleLoadFile once invoke has rejected: notify, nothing else
loadRejects(call) ==
    /\ call \in inFlight
    /\ call.command = "load_powers_from_path"
    /\ inFlight' = inFlight \ {call}
    /\ UNCHANGED <<powers, searchQuery, currentFilePath, resolveVars, forestVars,
                   cursorVars>>

\* handleWriteFile up to its await: the list of this render is handed to the
\* backend for the current file path
handleWriteFile ==
    /\ Cardinality(inFlight \cup savesTo(currentFilePath, powers)) <= MaxInFlight
    /\ inFlight' = inFlight \cup savesTo(currentFilePath, powers)
    /\ UNCHANGED <<powers, searchQuery, currentFilePath, resolveVars, forestVars,
                   cursorVars>>

\* the rest of handleWriteFile once invoke has resolved or rejected: notify
saveSettles(call) ==
    /\ call \in inFlight
    /\ call.command = "save_power_list_to_path"
    /\ inFlight' = inFlight \ {call}
    /\ UNCHANGED <<powers, searchQuery, currentFilePath, resolveVars, forestVars,
                   cursorVars>>

\* the editor has started: useState(null) of powers, selectedPower and
\* currentFilePath, and "" of searchQuery
InitFiles ==
    /\ powers = <<>>
    /\ searchQuery = <<>>
    /\ currentFilePath = ""
    /\ inFlight = {}
    /\ NothingSelected
    /\ effect = "idle"
    /\ NoForest
    /\ NoCursor

NextFiles ==
    \/ \E filePath \in Paths : handleLoadFile(filePath)
    \/ \E call \in inFlight : \E loadedPowers \in FileLists :
          loadResolves(call, loadedPowers)
    \/ \E call \in inFlight : loadRejects(call)
    \/ handleWriteFile
    \/ \E call \in inFlight : saveSettles(call)
    \/ \E i \in 1..Len(powers) : SelectPower(i)
    \/ handleDeletePower

SpecFiles == InitFiles /\ [][NextFiles]_vars

\* ------------------------------------------------- the resolver's contract

\* s and t are the same text ignoring case, compared character by character
EqIgnoreCase(s, t) ==
    /\ s # Null /\ t # Null
    /\ Len(s) = Len(t)
    /\ \A j \in 1..Len(s) :
          \/ s[j] = t[j]
          \/ <<s[j], t[j]>> \in CasePairs
          \/ <<t[j], s[j]>> \in CasePairs

\* the Powers of the list whose power_name is the text, ignoring case
Named(text) == { i \in 1..Len(powers) : EqIgnoreCase(powers[i].power_name, text) }

\* a slot of a ComboTree, empty in the null tree
SlotOf(tree, k) == IF tree = NullTree THEN 0 ELSE tree[k]

\* the directional list of a ComboTree, empty in the null tree
DirOf(tree) == IF tree = NullTree THEN <<>> ELSE tree.if_dir.items

\* the number of colons of an entry
RECURSIVE Colons(_)
Colons(e) ==
    IF e = <<>> THEN 0 ELSE (IF Head(e) = ":" THEN 1 ELSE 0) + Colons(Tail(e))

\* the text of an entry before its first colon, and after it
BeforeColon(e) ==
    SubSeq(e, 1, Min({ j \in 1..Len(e) : e[j] = ":" }) - 1)

AfterColon(e) ==
    SubSeq(e, Min({ j \in 1..Len(e) : e[j] = ":" }) + 1, Len(e))

\* the direction vocabulary, ignoring case
InVocabulary(token) == \E key \in DirectionKeys : EqIgnoreCase(token, key)

\* an entry DIRECTION:PowerName with one colon, a known direction and the name
\* of a Power of the list
ValidEntry(e) ==
    /\ Colons(e) = 1
    /\ InVocabulary(BeforeColon(e))
    /\ Named(AfterColon(e)) # {}

\* the comma-separated entries of the selected Power's directional field
EntriesOf(p) ==
    IF Truthy(powers[p].combo_override_if_dir)
    THEN split(powers[p].combo_override_if_dir, ",")
    ELSE <<>>

\* C5: each scalar slot of resolveForward holds the first Power in list order
\* whose power_name equals the field text ignoring case, and is empty when the
\* field is empty or no Power has that name
C5_ForwardFirstMatch ==
    selectedPower # 0 =>
        \A k \in DOMAIN SlotField :
            LET text == powers[selectedPower][SlotField[k]]
                got == SlotOf(comboTree, k)
            IN  IF Truthy(text) /\ Named(text) # {}
                THEN /\ got \in Named(text)
                     /\ \A j \in Named(text) : got <= j
                ELSE got = 0

\* C5 witness: a slot resolved to the first of two Powers that share a name,
\* by a field text that differs from that name in case
C5_Witness ==
    /\ selectedPower # 0
    /\ \E k \in DOMAIN SlotField :
          LET text == powers[selectedPower][SlotField[k]]
              got == SlotOf(comboTree, k)
          IN  /\ got # 0
              /\ powers[got].power_name # text
              /\ \E j \in Named(text) : j > got

\* C6: resolveForward is null whenever none of the seven slots resolves, and a
\* tree that is not null has a slot that is not empty
C6_ForwardNullWhenEmpty ==
    selectedPower # 0 =>
        /\ ( /\ \A k \in DOMAIN SlotField :
                    LET text == powers[selectedPower][SlotField[k]]
                    IN  ~Truthy(text) \/ Named(text) = {}
             /\ \A n \in 1..Len(EntriesOf(selectedPower)) :
                    ~ValidEntry(EntriesOf(selectedPower)[n]) )
           => comboTree = NullTree
        /\ comboTree # NullTree =>
              \/ \E k \in DOMAIN SlotField : comboTree[k] # 0
              \/ comboTree.if_dir.defined /\ Len(comboTree.if_dir.items) > 0

\* C6 witness: a null tree for a Power whose fields name no Power of the list
\* and hold only malformed directional entries
C6_Witness ==
    /\ selectedPower # 0
    /\ comboTree = NullTree
    /\ Truthy(powers[selectedPower].combo_override_if_wall)
    /\ Len(EntriesOf(selectedPower)) = 2

\* C7: the directional list of resolveForward is, in input order, one
\* (Direction, Power) pair for each valid entry; every other entry is dropped
C7_DirectionalEntries ==
    selectedPower # 0 =>
        LET valid == SelectSeq(EntriesOf(selectedPower), ValidEntry)
            got == DirOf(comboTree)
        IN  /\ Len(got) = Len(valid)
            /\ \A n \in 1..Len(valid) :
                  /\ EqIgnoreCase(got[n].direction, BeforeColon(valid[n]))
                  /\ got[n].direction \in DirectionKeys
                  /\ got[n].combo = Min(Named(AfterColon(valid[n])))

\* C7 witness: a list of one pair, from a field of four entries of which the
\* first, the third and the fourth are dropped
C7_Witness ==
    /\ selectedPower # 0
    /\ Len(EntriesOf(selectedPower)) = 4
    /\ Len(DirOf(comboTree)) = 1
    /\ ~ValidEntry(EntriesOf(selectedPower)[1])
    /\ ValidEntry(EntriesOf(selectedPower)[2])

\* the power-name part of an entry: the text between its first colon and its
\* second colon, or its end
NamePart(e) ==
    LET rest == AfterColon(e)
    IN  IF Colons(rest) = 0 THEN rest ELSE BeforeColon(rest)

\* an entry of a directional field that names the Power t under a direction
NamesTarget(e, t) ==
    /\ Colons(e) >= 1
    /\ InVocabulary(BeforeColon(e))
    /\ EqIgnoreCase(NamePart(e), powers[t].power_name)

\* the entries naming t in the directional fields of the Powers from p on, as
\* (source Power, entry) pairs in list order and input order
RECURSIVE EntriesNaming(_, _)
EntriesNaming(p, t) ==
    IF p > Len(powers) THEN <<>>
    ELSE LET NamesT(e) == NamesTarget(e, t)
             own == SelectSeq(EntriesOf(p), NamesT)
         IN  [n \in 1..Len(own) |-> [source |-> p, entry |-> own[n]]]
             \o EntriesNaming(p + 1, t)

\* the Powers whose field of slot k is the name of t, ignoring case
SourcesOf(k, t) ==
    { i \in 1..Len(powers) :
        EqIgnoreCase(powers[i][SlotField[k]], powers[t].power_name) }

\* C8: resolveReverse holds in each scalar slot the first Power in list order
\* whose field of that kind is the target's name ignoring case, and in the
\* directional slot one (direction, source) pair per entry naming the target;
\* it is null when no slot matches or the target has no name
C8_ReverseTree ==
    selectedPower # 0 =>
        LET t == selectedPower
            named == Truthy(powers[t].power_name)
            expected == IF named THEN EntriesNaming(1, t) ELSE <<>>
            got == DirOf(reverseComboTree)
        IN  /\ \A k \in DOMAIN SlotField :
                  LET sources == IF named THEN SourcesOf(k, t) ELSE {}
                  IN  SlotOf(reverseComboTree, k) =
                          IF sources = {} THEN 0 ELSE Min(sources)
            /\ Len(got) = Len(expected)
            /\ \A n \in 1..Len(expected) :
                  /\ got[n].combo = expected[n].source
                  /\ got[n].direction \in DirectionKeys
                  /\ EqIgnoreCase(got[n].direction, BeforeColon(expected[n].entry))
            /\ reverseComboTree = NullTree <=>
                  \/ ~named
                  \/ /\ \A k \in DOMAIN SlotField : SourcesOf(k, t) = {}
                     /\ Len(expected) = 0

\* C8 witness: a scalar slot holding the first of two sources, and a
\* directional slot with two pairs from one source
C8_Witness ==
    /\ selectedPower # 0
    /\ reverseComboTree # NullTree
    /\ \E k \in DOMAIN SlotField :
          /\ reverseComboTree[k] # 0
          /\ \E j \in SourcesOf(k, selectedPower) : j > reverseComboTree[k]
    /\ \E m, n \in 1..Len(DirOf(reverseComboTree)) :
          /\ m < n
          /\ DirOf(reverseComboTree)[m].combo = DirOf(reverseComboTree)[n].combo


\* --------------------------------------------------- the grouper's contract

\* Power m resolves one of its combo slots, scalar or directional, to Power n
ResolvesTo(m, n) ==
    LET tree == getComboTreeForPower(powers, powers[m])
    IN  /\ tree # NullTree
        /\ \/ \E k \in 1..Len(ScalarSlots) : tree[ScalarSlots[k]] = n
           \/ \E j \in 1..Len(tree.if_dir.items) : tree.if_dir.items[j].combo = n

\* C1: once the grouper has run, a Power is a forest root if and only if no
\* other Power of the list resolves a combo slot to it; a Power that only its
\* own combo field resolves to is a root
C1_RootIffNoOtherResolvesToIt ==
    effect = "done" =>
        \A n \in 1..Len(powers) :
            n \in RootNodes <=>
                ~ \E m \in 1..Len(powers) : m # n /\ ResolvesTo(m, n)

\* node n is marked embedded
Embedded(n) ==
    powers[n].power_id # "" /\ powers[n].power_id \in referencedNodes

\* absent, empty or whitespace-only text
Blank(text) == text = Null \/ \A i \in 1..Len(text) : text[i] = " "

\* seq lists exactly the members of S, each once, in list order
ListsInOrder(seq, S) ==
    /\ Range(seq) = S
    /\ \A i, j \in 1..Len(seq) : i < j => seq[i] < seq[j]

\* C2: once the grouper has run, every Power not marked embedded is a root
\* exactly once and in list order within its bucket, the ungrouped bucket when
\* its parent_item is absent, empty or whitespace-only and the group named by
\* its parent_item otherwise; no embedded Power is in any bucket
C2_RootsPartitioned ==
    effect = "done" =>
        LET Free == { n \in 1..Len(powers) : ~Embedded(n) }
            InGroup == { n \in Free : ~Blank(powers[n].parent_item) }
        IN  /\ ListsInOrder(ungroupedPowerNodes, Free \ InGroup)
            /\ DOMAIN groupedPowerNodes = { powers[n].parent_item : n \in InGroup }
            /\ \A g \in DOMAIN groupedPowerNodes :
                  ListsInOrder(groupedPowerNodes[g],
                               { n \in InGroup : powers[n].parent_item = g })

\* the grouper has run on a list with an embedded Power that has a group name,
\* a root in a named group and a root with a whitespace-only parent_item
C2_Witness ==
    /\ effect = "done"
    /\ \E n \in 1..Len(powers) : Embedded(n) /\ ~Blank(powers[n].parent_item)
    /\ DOMAIN groupedPowerNodes # {}
    /\ \E i \in 1..Len(ungroupedPowerNodes) :
          powers[ungroupedPowerNodes[i]].parent_item \notin {Null, <<>>}

\* the nodes that are children of node n, by scalar slot or by direction
ChildrenOf(n) ==
    ({ nodes[n].children[ScalarSlots[k]] : k \in 1..Len(ScalarSlots) } \ {0})
        \cup { nodes[n].children.if_dir.items[j].node :
                 j \in 1..Len(nodes[n].children.if_dir.items) }

\* C3: tree construction, buildComboTree started from every Power of the list,
\* terminates for every list, with cycles of combo references through scalar
\* slots or directional entries included
C3_BuildTerminates == <>(effect = "done")

\* the construction has ended on a list where a Power is its own child and
\* where a directional entry and a scalar reference back close a longer cycle
C3_Witness ==
    /\ effect = "done"
    /\ \E n \in 1..Len(nodes) : n \in ChildrenOf(n)
    /\ \E n, m \in 1..Len(nodes) :
          /\ n # m
          /\ \E j \in 1..Len(nodes[n].children.if_dir.items) :
                nodes[n].children.if_dir.items[j].node = m
          /\ \E k \in 1..Len(ScalarSlots) : nodes[m].children[ScalarSlots[k]] = n

\* ---------------------------------------------------- the rendering's contract

\* the ids on the steps 1..upTo of a path
IdsOn(path, upTo) == { powers[path[i].node].power_id : i \in 1..upTo } \ {""}

\* the steps from node n to its children, in any order
StepsFrom(n) ==
    { [slot |-> ScalarSlots[k], direction |-> Null,
       node |-> nodes[n].children[ScalarSlots[k]]] :
         k \in { k \in 1..Len(ScalarSlots) : nodes[n].children[ScalarSlots[k]] # 0 } }
        \cup { [slot |-> "if_dir",
                direction |-> nodes[n].children.if_dir.items[j].direction,
                node |-> nodes[n].children.if_dir.items[j].node] :
                  j \in 1..Len(nodes[n].children.if_dir.items) }

\* C4: in the rendering of a root with every node expanded, no branch holds a
\* power_id twice as a normal node; meeting an id that is already on the branch
\* gives a cycle leaf without children; every child of a normal node is
\* rendered, as a normal node when its id is not yet on the branch
C4_CycleLeavesOnly ==
    (rendered.root # 0 /\ rendered.opened) =>
        LET rows == rendered.rows
        IN  \A i \in 1..Len(rows) :
                LET path == rows[i].path
                    last == path[Len(path)]
                    id == powers[last.node].power_id
                    onBranch == id # "" /\ id \in IdsOn(path, Len(path) - 1)
                IN  /\ rows[i].cycle <=> onBranch
                    /\ rows[i].cycle =>
                          ~ \E j \in 1..Len(rows) :
                                /\ Len(rows[j].path) > Len(path)
                                /\ SubSeq(rows[j].path, 1, Len(path)) = path
                    /\ ~rows[i].cycle =>
                          /\ \A a, b \in 1..Len(path) :
                                (a # b /\ powers[path[a].node].power_id # "")
                                    => powers[path[a].node].power_id
                                          # powers[path[b].node].power_id
                          /\ \A step \in StepsFrom(last.node) :
                                \E j \in 1..Len(rows) :
                                    rows[j].path = Append(path, step)

\* a root is rendered with every node expanded, a cycle leaf is among its rows,
\* a sibling branch is rendered after it, and the Power of the cycle leaf is a
\* normal node on another branch
C4_Witness ==
    /\ rendered.root # 0 /\ rendered.opened
    /\ \E i, j, k \in 1..Len(rendered.rows) :
          LET rows == rendered.rows
          IN  /\ rows[i].cycle
              /\ i < j /\ ~rows[j].cycle /\ Len(rows[j].path) = 2
              /\ ~rows[k].cycle /\ Len(rows[k].path) > 1
              /\ rows[k].path[Len(rows[k].path)].node
                    = rows[i].path[Len(rows[i].path)].node

\* ------------------------------------------------------ the cursor's contract

\* C9: after any sequence of next-cast, previous-cast, next-frame and
\* previous-frame operations from (0, 0), the stored castIndex is the cast index
\* getCurrentCastAndFrame computes for the stored frameIndex, Casts of zero
\* frames included
C9_CastIndexInSync ==
    currentCastIndex = getCurrentCastAndFrame(casts, currentFrame).castIndex

\* C10: with at least one Cast and at least one frame in total, the cursor
\* stays in bounds after any sequence of the four navigation operations:
\* 0 <= castIndex < number of Casts and 0 <= frameIndex < total frames
C10_CursorInBounds ==
    (Len(casts) >= 1 /\ getTotalFramesAllCasts(casts) >= 1) =>
        /\ 0 <= currentCastIndex /\ currentCastIndex < Len(casts)
        /\ 0 <= currentFrame /\ currentFrame < getTotalFramesAllCasts(casts)

\* ------------------------------------------------------ the frame contract

\* startup and active of a Cast, 0 for a Cast without cast timing
StartupOf(c) == IF c.cast_time.defined THEN c.cast_time.startup ELSE 0

ActiveOf(c) == IF c.cast_time.defined THEN c.cast_time.active ELSE 0

\* framesInCast: startup + active, collapsed to one frame for a Cast with
\* startup and a single active frame
FramesInCast(c) ==
    IF StartupOf(c) > 0 /\ ActiveOf(c) = 1 THEN 1 ELSE StartupOf(c) + ActiveOf(c)

\* the sum of framesInCast over a sequence of Casts
RECURSIVE SumOfFrames(_)
SumOfFrames(cs) ==
    IF cs = <<>> THEN 0 ELSE FramesInCast(Head(cs)) + SumOfFrames(Tail(cs))

\* C11: the frame count of every Cast is startup + active, or exactly 1 when
\* startup > 0 and active = 1, and the total frame count shown is the sum of
\* the frame counts of all Casts
C11_FramesInCast ==
    view.mounted =>
        /\ \A i \in 0..(Len(casts) - 1) :
              getTotalFramesForCast(casts, i) = FramesInCast(casts[i + 1])
        /\ currentCastIndex < Len(casts) =>
              view.castFrames = FramesInCast(casts[currentCastIndex + 1])
        /\ view.totalFrames = SumOfFrames(casts)

\* the visualizer shows the second Cast of cast time "1:1,5:0": startup 5 and
\* active 1 make one frame, and four frames in total
C11_Witness ==
    /\ view.mounted
    /\ Len(casts) = 2
    /\ currentCastIndex = 1
    /\ casts[2].cast_time = [defined |-> TRUE, startup |-> 5, active |-> 1]
    /\ view.castFrames = 1
    /\ view.totalFrames = 4

\* cumulativeFrames(c): the frames of the Casts before Cast c
CumulativeFrames(cs, c) == SumOfFrames(SubSeq(cs, 1, c))

\* (c, w) is an existing position of the timeline and stands for frame f
PositionOf(cs, position, f) ==
    /\ position.castIndex >= 0 /\ position.castIndex < Len(cs)
    /\ position.frameWithinCast >= 0
    /\ position.frameWithinCast < FramesInCast(cs[position.castIndex + 1])
    /\ CumulativeFrames(cs, position.castIndex) + position.frameWithinCast = f

\* C12: every global frame f with 0 <= f < total frames is mapped to a pair
\* (c, w) with 0 <= w < framesInCast(c) and cumulativeFrames(c) + w = f, for
\* the frame the cursor is on and for every other frame of the timeline
C12_FrameRoundTrip ==
    view.mounted =>
        /\ \A f \in 0..(SumOfFrames(casts) - 1) :
              PositionOf(casts, getCurrentCastAndFrame(casts, f), f)
        /\ (currentFrame >= 0 /\ currentFrame < SumOfFrames(casts)) =>
              PositionOf(casts, view.castFrame, currentFrame)

\* the cursor has passed a Cast of no frame: frame 2 of "0:1,,0:1" is the
\* first frame of the third Cast
C12_Witness ==
    /\ view.mounted
    /\ Len(casts) = 3
    /\ FramesInCast(casts[2]) = 0
    /\ currentFrame = 2
    /\ view.castFrame = [castIndex |-> 2, frameWithinCast |-> 0]

\* position is the last frame of the last Cast, an existing position; with no
\* Cast at all it is at least no negative frame
LastPosition(cs, position) ==
    /\ position.frameWithinCast >= 0
    /\ cs # <<>> =>
          /\ position.castIndex = Len(cs) - 1
          /\ position.frameWithinCast < FramesInCast(cs[Len(cs)])

\* C13: every global frame f >= total frames is mapped to the last frame of
\* the last Cast, an existing position with 0 <= frameWithinCast <
\* framesInCast(castIndex), also when there is no Cast or the last Cast has no
\* frame, where no negative frame index results
C13_ClampToLastFrame ==
    view.mounted =>
        /\ \A f \in Max({0, SumOfFrames(casts)})..(Max({0, SumOfFrames(casts)}) + 1) :
              LastPosition(casts, getCurrentCastAndFrame(casts, f))
        /\ (currentFrame >= 0 /\ currentFrame >= SumOfFrames(casts)) =>
              LastPosition(casts, view.castFrame)

\* ----------------------------------------------------- the hitbox contract

\* a value is given: neither absent nor empty
Given(text) == text # Null /\ text # <<>>

\* the fallback-resolved value of a field of Cast i (counted from 0): its own
\* value, or the value of Cast 0 when its own is empty or absent
Resolved(cs, i, f) ==
    IF i < Len(cs) /\ Given(cs[i + 1][f]) THEN cs[i + 1][f]
    ELSE IF cs # <<>> THEN cs[1][f]
    ELSE Null

\* the render shows at least one hitbox
HitboxShown == \E k \in 1..Len(view.units) : view.units[k].shown

\* the geometry the render displays has a box with both radii
HasBox ==
    \E k \in 1..Len(view.hitbox.aoe_radius_x) :
        /\ Given(view.hitbox.aoe_radius_x[k])
        /\ k <= Len(view.hitbox.aoe_radius_y)
        /\ Given(view.hitbox.aoe_radius_y[k])

\* the visibility predicate for startup, active and frame-within-cast w
Visible(startup, active, w) ==
    \/ startup > 0 /\ active = 1 /\ w = 0
    \/ ~(startup > 0 /\ active = 1) /\ w >= startup /\ w < startup + active

C15_ZeroDamageSuppressed ==
    (/\ view.mounted
     /\ currentCastIndex < Len(casts)
     /\ Resolved(casts, currentCastIndex, "base_damage") = <<"0">>) =>
        ~HitboxShown

\* the four hitbox geometry fields
GeometryKeys == {"aoe_radius_x", "aoe_radius_y", "center_offset_x", "center_offset_y"}

\* the comma-separated groups of a raw field text, none for an absent field
GroupsOfField(power, f) ==
    IF Field(power, f) = Null THEN <<>> ELSE split(Field(power, f), ",")

\* C16: for each hitbox geometry field whose group 0 is given, when the field
\* has no group at the index of the displayed Cast or that group is empty,
\* the geometry displayed for the Cast is the group at index 0 of the field
C16_HitboxFallback ==
    (view.mounted /\ selectedPower # 0) =>
        \A f \in GeometryKeys :
            LET groups == GroupsOfField(powers[selectedPower], f)
            IN  (/\ groups # <<>>
                 /\ groups[1] # <<>>
                 /\ \/ currentCastIndex >= Len(groups)
                    \/ groups[currentCastIndex + 1] = <<>>) =>
                    view.hitbox[f] = split(groups[1], "&")

\* the five cast fields resolved by fallback
CastKeys ==
    {"base_damage", "variable_impulse", "fixed_impulse",
     "impulse_offset_x", "impulse_offset_y"}

\* the own value of a field at Cast i (counted from 0) as the Power's text has
\* it: the comma group at index i, nothing when absent or empty
OwnValue(power, f, i) ==
    LET groups == GroupsOfField(power, f)
    IN  IF i < Len(groups) /\ groups[i + 1] # <<>> THEN groups[i + 1] ELSE Null

\* the value displayed when neither the Cast nor Cast 0 has one
DefaultOf(f) ==
    IF f \in {"base_damage", "variable_impulse", "fixed_impulse"} THEN <<"0">> ELSE Null

\* C17 as stated: the resolved value of each cast field of the displayed Cast
\* is its own value when non-empty and otherwise the value of Cast 0
C17_FallbackToFirst ==
    (view.mounted /\ selectedPower # 0) =>
        \A f \in CastKeys :
            LET own == OwnValue(powers[selectedPower], f, currentCastIndex)
                first == OwnValue(powers[selectedPower], f, 0)
            IN  view.cast[f] = (IF Given(own) THEN own ELSE first)

\* C17: the resolved value of each cast field of the displayed Cast is its own
\* value when non-empty, otherwise the value of Cast 0 when that is non-empty,
\* otherwise "0" for base_damage, variable_impulse and fixed_impulse and
\* nothing for the impulse offsets; the decoded Cast keeps its own field
C17_CastFallback ==
    (view.mounted /\ selectedPower # 0) =>
        \A f \in CastKeys :
            LET own == OwnValue(powers[selectedPower], f, currentCastIndex)
                first == OwnValue(powers[selectedPower], f, 0)
            IN  /\ view.cast[f] = (IF Given(own) THEN own
                                   ELSE IF Given(first) THEN first
                                   ELSE DefaultOf(f))
                /\ currentCastIndex < Len(casts) =>
                       casts[currentCastIndex + 1][f] = own

\* a Cast after the first displayed with base_damage taken from Cast 0, its own
\* being empty and kept empty, and with its own fixed_impulse, different from
\* the one of Cast 0
C17_Witness ==
    /\ view.mounted
    /\ currentCastIndex = 1
    /\ Len(casts) >= 2
    /\ casts[2].base_damage = Null
    /\ Given(casts[1].base_damage)
    /\ view.cast.base_damage = casts[1].base_damage
    /\ Given(casts[2].fixed_impulse)
    /\ casts[2].fixed_impulse # casts[1].fixed_impulse
    /\ view.cast.fixed_impulse = casts[2].fixed_impulse

\* ------------------------------------------------- the cast-time contract

\* the part of a cast-time entry before its first "@", the whole entry when it
\* has none
BeforeSuffix(e) ==
    IF \E j \in 1..Len(e) : e[j] = "@"
    THEN SubSeq(e, 1, Min({ j \in 1..Len(e) : e[j] = "@" }) - 1)
    ELSE e

\* the texts START and ACTIVE of an entry; a part that is not written is empty
StartText(e) ==
    IF Colons(BeforeSuffix(e)) = 0 THEN BeforeSuffix(e)
    ELSE BeforeColon(BeforeSuffix(e))

ActiveText(e) ==
    IF Colons(BeforeSuffix(e)) = 0 THEN <<>>
    ELSE AfterColon(BeforeSuffix(e))

\* a decimal numeral: digits, after an optional minus sign
IsNumeral(t) ==
    LET digits == IF t # <<>> /\ t[1] = "-" THEN Tail(t) ELSE t
    IN  digits # <<>> /\ \A j \in 1..Len(digits) : IsDigit(digits[j])

\* the value of a run of digits read from the left, after the digits of value
\* before
RECURSIVE ReadDigits(_, _)
ReadDigits(before, digits) ==
    IF digits = <<>> THEN before
    ELSE ReadDigits(10 * before + DigitValue(Head(digits)), Tail(digits))

\* the count a START or ACTIVE text stands for: the value of a numeral, 0 for
\* a missing or non-numeric text
CountOf(t) ==
    IF ~IsNumeral(t) THEN 0
    ELSE IF t[1] = "-" THEN 0 - ReadDigits(0, Tail(t))
    ELSE ReadDigits(0, t)

\* a cast-time entry of the shape START:ACTIVE, with or without @EXTRA: not
\* empty, and with at most one colon before the suffix
HasShape(e) == e # <<>> /\ Colons(BeforeSuffix(e)) <= 1

\* C18: every cast-time entry of the shape START:ACTIVE, with or without
\* @EXTRA, is decoded to startup = START and active = ACTIVE + 1, a missing or
\* non-numeric START or ACTIVE counting as 0 and the suffix being ignored
C18_CastTimeDecoding ==
    selectedPower # 0 =>
        LET entries == GroupsOfField(powers[selectedPower], "cast_time")
        IN  \A i \in 1..Len(entries) :
                HasShape(entries[i]) =>
                    /\ i <= Len(casts)
                    /\ casts[i].cast_time =
                           [defined |-> TRUE,
                            startup |-> CountOf(StartText(entries[i])),
                            active  |-> CountOf(ActiveText(entries[i])) + 1]

\* the entry "12:3@something" decoded to startup 12 and active 4
C18_Witness ==
    /\ selectedPower # 0
    /\ powers[selectedPower].cast_time =
           <<"1", "2", ":", "3", "@", "s", "o", "m", "e", "t", "h", "i", "n", "g">>
    /\ Len(casts) = 1
    /\ casts[1].cast_time = [defined |-> TRUE, startup |-> 12, active |-> 4]

\* C19: every decoded Cast with cast timing has startup >= 0 and active >= 0,
\* and neither the frames of a Cast nor the total frame count is negative
C19_NonNegativeTiming ==
    selectedPower # 0 =>
        /\ \A i \in 1..Len(casts) :
               /\ casts[i].cast_time.defined =>
                      /\ casts[i].cast_time.startup >= 0
                      /\ casts[i].cast_time.active >= 0
               /\ getTotalFramesForCast(casts, i - 1) >= 0
        /\ view.totalFrames >= 0

\* ------------------------------------------------- the selection contract

\* C20: whenever the selection changes to a different Power, by a click or by
\* a create, the cursor is (0, 0) afterwards, whatever it was before and
\* whatever the power_ids of the two Powers
C20_ResetOnSelection ==
    [][(powers' # powers \/ selectedPower' # selectedPower) =>
           (currentCastIndex' = 0 /\ currentFrame' = 0)]_vars

\* ------------------------------------------------ the forest and the resolver

\* C25: once the grouper has run, every child node recorded for a Power with a
\* power_id, in a scalar slot or as a directional entry, is the Power that
\* resolveForward returns for that slot or entry, and that Power is the one
\* marked embedded
C25_EdgesAgreeWithResolver ==
    effect = "done" =>
        \A p \in 1..Len(powers) :
            powers[p].power_id # "" =>
                LET tree == getComboTreeForPower(powers, powers[p])
                IN  /\ \A k \in 1..Len(ScalarSlots) :
                          nodes[p].children[ScalarSlots[k]] # 0 =>
                              /\ nodes[p].children[ScalarSlots[k]]
                                    = SlotOf(tree, ScalarSlots[k])
                              /\ Embedded(SlotOf(tree, ScalarSlots[k]))
                    /\ \A j \in 1..Len(nodes[p].children.if_dir.items) :
                          LET child == nodes[p].children.if_dir.items[j]
                          IN  \E i \in 1..Len(DirOf(tree)) :
                                  /\ DirOf(tree)[i].direction = child.direction
                                  /\ DirOf(tree)[i].combo = child.node
                                  /\ Embedded(child.node)

\* node n is reached from node r along the child edges of the forest
RECURSIVE ReachedWithin(_, _, _)
ReachedWithin(from, n, steps) ==
    \/ n \in from
    \/ /\ steps > 0
       /\ ReachedWithin(from \cup UNION { ChildrenOf(m) : m \in from }, n, steps - 1)

\* C28: once the grouper has run, every Power with a power_id is a forest root
\* or is reached from a forest root along the child edges, cycles of
\* references and references of a Power to itself included
C28_EveryPowerListed ==
    effect = "done" =>
        \A n \in 1..Len(powers) :
            powers[n].power_id # "" =>
                ReachedWithin(RootNodes, n, Len(powers))

\* C26: resolveReverse inverts resolveForward: a Power that resolveReverse of
\* the selected Power holds in a scalar slot resolves that slot forward to the
\* selected Power, and a (direction, Power) pair of its directional slot is
\* matched by a pair (direction, selected Power) of that Power's forward tree
C26_ReverseInvertsForward ==
    selectedPower # 0 =>
        /\ \A k \in DOMAIN SlotField :
              LET source == SlotOf(reverseComboTree, k)
              IN  source # 0 =>
                      SlotOf(getComboTreeForPower(powers, powers[source]), k)
                          = selectedPower
        /\ \A n \in 1..Len(DirOf(reverseComboTree)) :
              LET pair == DirOf(reverseComboTree)[n]
                  forward == DirOf(getComboTreeForPower(powers, powers[pair.combo]))
              IN  \E i \in 1..Len(forward) :
                      /\ forward[i].direction = pair.direction
                      /\ forward[i].combo = selectedPower
\* ------------------------------------------------------ clicks on the list

\* C21: when a Power is selected from outside the list, by a click in the
\* combo viewer, every root node that has the selected Power below it is
\* marked expanded afterwards
C21_ExternalSelectionExpands ==
    [][(effect = "done" /\ \E i \in 1..Len(powers) : ClickCombo(i)) =>
          \A r \in RootNodes :
              ReachedWithin(ChildrenOf(r), selectedPower', Len(powers)) =>
                  nodes'[r].expanded]_vars
\* C27: toggling the expand/collapse flag of a node terminates for every
\* forest: a click on the list never overflows the call stack, whatever combo
\* cycles the other roots reach
C27_ToggleTerminates == toggle # "RangeError"
\* ------------------------------------------------- the forest and the search

\* the Power of the full list that node n of the forest wraps
ShownPower(n) == filteredPositions(powers, searchQuery)[n]

\* the nodes of the forest that wrap the Power at position p of the full list
NodesOf(p) ==
    { n \in 1..Len(filteredPowers) : ShownPower(n) = p }

\* C30: the forest is computed against the full list whatever the query: a
\* Power shown as a root is not a combo target of another Power of the full
\* list, and a combo edge of a shown Power to a Power that has an id is not
\* dropped because the query has filtered the target out
C30_ForestOfFullList ==
    effect = "done" =>
        /\ \A r \in RootNodes :
              ~ \E m \in 1..Len(powers) :
                    m # ShownPower(r) /\ ResolvesTo(m, ShownPower(r))
        /\ \A n \in 1..Len(filteredPowers) :
              filteredPowers[n].power_id # "" =>
                  LET tree == getComboTreeForPower(powers, filteredPowers[n])
                      Dropped(t) == /\ t # 0
                                    /\ powers[t].power_id # ""
                                    /\ NodesOf(t) = {}
                  IN  /\ \A k \in 1..Len(ScalarSlots) :
                            Dropped(SlotOf(tree, ScalarSlots[k])) =>
                                nodes[n].children[ScalarSlots[k]] # 0
                      /\ \A i \in 1..Len(DirOf(tree)) :
                            Dropped(DirOf(tree)[i].combo) =>
                                \E j \in 1..Len(nodes[n].children.if_dir.items) :
                                    nodes[n].children.if_dir.items[j].direction
                                        = DirOf(tree)[i].direction
\* ------------------------------------------------------ the editing session

\* C22: starting from a loaded list whose power_ids are pairwise distinct,
\* after any sequence of create-Power and delete-Power operations the
\* power_ids of the list are still pairwise distinct, so the id given to a
\* created Power is not the id of a Power in the list
C22_IdsStayDistinct ==
    \A i, j \in 1..Len(powers) : i # j => powers[i].power_id # powers[j].power_id
\* C24: a form edit of a single field of the selected Power, its power_id
\* included, replaces exactly the list entry that was the selected Power with
\* the edited record: the list keeps its length and order, every other entry
\* is unchanged, and afterwards the selection is the edited record and is an
\* entry of the list
C24_EditReplacesSelectedEntry ==
    [][\A key \in EditKeys : \A value \in EditValues(key) :
          (/\ selectedPower # 0
           /\ powers[selectedPower] = selected
           /\ handleInputChange(key, value)) =>
              LET edited == [selected EXCEPT ![key] = value]
              IN  /\ Len(powers') = Len(powers)
                  /\ \A j \in 1..Len(powers) :
                        powers'[j] = IF j = selectedPower THEN edited ELSE powers[j]
                  /\ selected' = edited
                  /\ \E j \in 1..Len(powers') : powers'[j] = selected']_vars
\* C29: after any interleaving of navigation operations and field edits of
\* the selected Power, the cursor refers to an existing position of the
\* current timeline: whenever the timeline has at least one frame,
\* castIndex < number of Casts and frameIndex < total frames, also after an
\* edit that removes Casts or shortens them
C29_CursorValidAfterEdits ==
    (view.mounted /\ SumOfFrames(casts) >= 1) =>
        /\ currentCastIndex < Len(casts)
        /\ currentFrame < SumOfFrames(casts)
\* every Power of the list is a Power of one and the same loaded list
NotMixed ==
    \E list \in FileLists :
        \A i \in 1..Len(powers) : \E j \in 1..Len(list) : powers[i] = list[j]

\* the step settles the load in flight as a failure: list, selection and file
\* path are as before
LoadFailed(call) ==
    /\ powers' = powers
    /\ selectedPower' = selectedPower
    /\ selected' = selected
    /\ currentFilePath' = currentFilePath

\* the step settles the load in flight as a success: the list is a loaded
\* list, the file path is the one asked for and nothing is selected
LoadSucceeded(call) ==
    /\ powers' \in FileLists
    /\ currentFilePath' = call.filePath
    /\ selected' = NoPower

\* C23: a load that fails leaves the list, the selection and the current file
\* path unchanged; a load that succeeds replaces the whole list, sets the
\* current file path and clears the selection in one step, so the list is
\* never a mix of two files; and a save with no current file path asks
\* nothing of the backend
C23_LoadAndSave ==
    [][/\ \A call \in inFlight :
             (call.command = "load_powers_from_path" /\ call \notin inFlight') =>
                 LoadFailed(call) \/ LoadSucceeded(call)
       /\ NotMixed'
       /\ \A call \in inFlight' :
             call.command = "save_power_list_to_path" =>
                 /\ call.filePath # ""
                 /\ call \notin inFlight =>
                       call.filePath = currentFilePath /\ call.updatedList = powers]_vars

\* a list has been loaded over another one while a save is in flight and a
\* load has yet to settle
C23_Witness ==
    /\ currentFilePath = "b.csv"
    /\ powers \in FileLists
    /\ selected = NoPower
    /\ \E call \in inFlight :
          /\ call.command = "save_power_list_to_path"
          /\ call.filePath = "a.csv"
          /\ call.updatedList # powers

====
